---- MODULE Spec2Model ----
(***************************************************************************)
(* A model of the symbolic execution kernel of symex: the path driver      *)
(* (VM::run, SymexArbiter::run), the per path state (GAState/GAState2),    *)
(* the default PC hooks, and the byte addressable array memory with its    *)
(* register file (ArrayMemory, BoolectorMemory), the start of a run        *)
(* (GAState::new, GAState2::new, VM::new) and the fetch of the next        *)
(* instruction or PC hook (get_next_instruction).                          *)
(***************************************************************************)
EXTENDS Integers, Sequences, FiniteSets, TLC

VARIABLES
    paths,      \* VM.paths: the DFS store, a sequence of Path records, top is last
    cur,        \* the GAState owned by the running executor (NoState between paths)
    driver,     \* position of SymexArbiter::run / VM::run
    results,    \* what the driver has reported, in order
    ev,         \* the fork decision of the last step, if it was one: [op, g]
    ram,        \* ArrayMemory.memory: address -> 8 bit cell
    endianness, \* ArrayMemory.endianness
    nwrites,    \* number of writes issued so far
    mop,        \* the last memory operation and what it returned
    impl,       \* which state implementation holds the registers
    regs,       \* the register file, the program counter and the symbols made
    rop,        \* the last register operation and the reads before it
    run,        \* the symbols the ELF defines and the error the run returned
    symbols,    \* SubProgramMap: the names of the subprograms of the ELF
    installed,  \* the hook container under construction and the last result
    probe       \* the subprogram a path last reached and how the path went on

dvars == <<paths, cur, driver, results, ev>>
mvars == <<ram, endianness, nwrites, mop>>
rvars == <<impl, regs, rop>>
uvars == <<run>>
hvars == <<symbols, installed, probe>>
vars == <<paths, cur, driver, results, ev, ram, endianness, nwrites, mop,
          impl, regs, rop, run, symbols, installed, probe>>

(***************************************************************************)
(* Bounds of the model.                                                    *)
(***************************************************************************)
NumVars == 1        \* symbolic one bit inputs a guard may mention
NumForkVars == 2    \* symbolic one bit inputs of the runs that fill the path store
MaxInstr == 2       \* instructions one path executes before the model stops it
MaxWrites == 1      \* memory writes issued in one run of the memory model
PtrBits == 4        \* bits of an address: the address space wraps at 2^PtrBits
MaxRegOps == 3      \* register reads and writes issued on one path
SolutionCap == 2    \* values of a symbolic PC the solver is asked to enumerate
MaxSymbols == 2     \* symbols one path makes with symbolic_size
RegBits == 5        \* bits of a register: arithmetic on registers wraps at 2^RegBits

(***************************************************************************)
(* Expressions, constraints and the solver.  A guard is a literal over the *)
(* symbolic inputs; a constraint set is the set of literals asserted into  *)
(* the solver; satisfiability is decided over all valuations.              *)
(***************************************************************************)
BoolVars == 1..NumVars
Literals == BoolVars \X BOOLEAN
Not(g) == <<g[1], ~g[2]>>
ForkVars == 1..NumForkVars
ForkLiterals == ForkVars \X BOOLEAN
Valuations == [BoolVars \cup ForkVars -> BOOLEAN]
Models(C) == {m \in Valuations : \A l \in C : m[l[1]] = l[2]}
IsSat(C) == Models(C) # {}
IsSatWith(C, g) == IsSat(C \cup {g})

Const(v) == [k |-> "const", v |-> v]
Sym(n) == [k |-> "sym", v |-> n]
IsConst(e) == e.k = "const"

(***************************************************************************)
(* Addresses of the program under analysis.  Code addresses are even       *)
(* (Thumb); the hooked subprograms and the end-PC sentinel are single      *)
(* addresses installed in the pc_hook table.                               *)
(***************************************************************************)
EntryPc == 12
StartCcPc == 2
EndCcPc == 4
PanicPc == 6
SuppressPc == 8
EndPcAddr == 10
CodeAddrs == {EntryPc, StartCcPc, EndCcPc, PanicPc, SuppressPc, EndPcAddr}

pc_hook ==
    [a \in CodeAddrs |->
        CASE a = StartCcPc -> "start_cyclecount"
          [] a = EndCcPc -> "end_cyclecount"
          [] a = PanicPc -> "EndFailure"
          [] a = SuppressPc -> "Suppress"
          [] a = EndPcAddr -> "EndSuccess"
          [] OTHER -> "none"]

get_pc_hooks(pc) == pc_hook[pc]

NoState == [live |-> FALSE]

NewState(entry, end_address) ==
    [live |-> TRUE,
     constraints |-> {},
     cycle_count |-> 0,
     count_cycles |-> TRUE,
     instruction_counter |-> 0,
     pc |-> entry,
     lr |-> Const(end_address)]

Path(state, constraints) == [state |-> state, constraints |-> constraints]

save_path(store, p) == Append(store, p)
TopPath(store) == store[Len(store)]
PopPath(store) == SubSeq(store, 1, Len(store) - 1)

Ev(op, g) == [op |-> op, g |-> g]
NoLit == <<0, FALSE>>

(***************************************************************************)
(* VM::run, first half: pop the most recently saved path and assert the    *)
(* constraints saved with it into the state's solver.                      *)
(***************************************************************************)
AssertAll_Skipped(state, constraints) == state

AssertAll_Overwrites(state, constraints) ==
    [state EXCEPT !.constraints = constraints]

AssertAll(state, constraints) ==
    [state EXCEPT !.constraints = state.constraints \cup constraints]

VMRunPop_Oldest ==
    /\ driver = "idle"
    /\ Len(paths) > 0
    /\ cur' = AssertAll(Head(paths).state, Head(paths).constraints)
    /\ paths' = Tail(paths)
    /\ driver' = "exec"
    /\ ev' = Ev("step", NoLit)
    /\ UNCHANGED results

VMRunPop ==
    /\ driver = "idle"
    /\ Len(paths) > 0
    /\ cur' = AssertAll(TopPath(paths).state, TopPath(paths).constraints)
    /\ paths' = PopPath(paths)
    /\ driver' = "exec"
    /\ ev' = Ev("step", NoLit)
    /\ UNCHANGED results

(* VM::run returns Ok(None): the while-let of SymexArbiter::run ends. *)
VMRunNone ==
    /\ driver = "idle"
    /\ Len(paths) = 0
    /\ driver' = "done"
    /\ ev' = Ev("step", NoLit)
    /\ UNCHANGED <<paths, cur, results>>

(***************************************************************************)
(* SymexArbiter::run, loop body: a Suppress result is skipped, every other *)
(* result is recorded with the final cycle count.                          *)
(***************************************************************************)
Record_SkipsAssumptionUnsat(log, result, state) ==
    IF result \in {"Suppress", "AssumptionUnsat"}
    THEN log
    ELSE Append(log, result)

Record_RecordsSuppress(log, result, state) == Append(log, result)

Record(log, result, state) ==
    IF result = "Suppress"
    THEN log
    ELSE Append(log, result)

(* resume_execution returned Ok(result): VM::run hands it to the arbiter. *)
PathEnds(result, state, op, g) ==
    /\ results' = Record(results, result, state)
    /\ cur' = NoState
    /\ driver' = "idle"
    /\ ev' = Ev(op, g)
    /\ UNCHANGED paths

(* resume_execution returned Err(e): `?` in VM::run and in the arbiter. *)
RunAborts(op) ==
    /\ cur' = NoState
    /\ driver' = "aborted"
    /\ ev' = Ev(op, NoLit)
    /\ UNCHANGED <<paths, results>>

(***************************************************************************)
(* State bookkeeping after an instruction.                                 *)
(***************************************************************************)
increment_cycle_count_Assigns(state, cycles) ==
    IF ~state.count_cycles
    THEN state
    ELSE [state EXCEPT !.cycle_count = cycles]

increment_cycle_count_Always(state, cycles) ==
    [state EXCEPT !.cycle_count = state.cycle_count + cycles]

increment_cycle_count(state, cycles) ==
    IF ~state.count_cycles
    THEN state
    ELSE [state EXCEPT !.cycle_count = state.cycle_count + cycles]

increment_instruction_count_ByTwo(state) ==
    [state EXCEPT !.instruction_counter = state.instruction_counter + 2]

increment_instruction_count(state) ==
    [state EXCEPT !.instruction_counter = state.instruction_counter + 1]

Fetching == driver = "exec" /\ cur.live

(* One instruction without a symbolic guard runs to completion. *)
ExecInstruction(cycles, target, newlr) ==
    /\ Fetching
    /\ get_pc_hooks(cur.pc) = "none"
    /\ cur.instruction_counter < MaxInstr
    /\ cur' = increment_cycle_count(
                 increment_instruction_count(
                     [cur EXCEPT !.pc = target, !.lr = newlr]), cycles)
    /\ ev' = Ev("step", NoLit)
    /\ UNCHANGED <<paths, driver, results>>

(***************************************************************************)
(* PC hooks of variant EndSuccess, EndFailure and Suppress end the path.   *)
(***************************************************************************)
PcHookEnds ==
    /\ Fetching
    /\ get_pc_hooks(cur.pc) \in {"EndSuccess", "EndFailure", "Suppress"}
    /\ PathEnds(CASE get_pc_hooks(cur.pc) = "EndSuccess" -> "Success"
                  [] get_pc_hooks(cur.pc) = "EndFailure" -> "Failure"
                  [] OTHER -> "Suppress",
                cur, "step", NoLit)

(***************************************************************************)
(* GAState::set_register("PC", expr): a constant is stored in the PC, any  *)
(* other expression is refused with NonDeterministicPC.                    *)
(***************************************************************************)
set_register_pc(state, expr) ==
    IF IsConst(expr)
    THEN [ok |-> TRUE, state |-> [state EXCEPT !.pc = expr.v]]
    ELSE [ok |-> FALSE, state |-> state]

(* The default intrinsics installed by HookContainer::default. *)
start_cyclecount(state) ==
    set_register_pc([state EXCEPT !.cycle_count = 0], state.lr)

end_cyclecount(state) ==
    set_register_pc([state EXCEPT !.count_cycles = FALSE], state.lr)

Intrinsic(state) ==
    IF get_pc_hooks(state.pc) = "start_cyclecount"
    THEN start_cyclecount(state)
    ELSE end_cyclecount(state)

(* The intrinsic returned Ok(()): the path goes on at the PC it set. *)
PcHookIntrinsic ==
    /\ Fetching
    /\ get_pc_hooks(cur.pc) \in {"start_cyclecount", "end_cyclecount"}
    /\ Intrinsic(cur).ok
    /\ cur' = Intrinsic(cur).state
    /\ ev' = Ev("step", NoLit)
    /\ UNCHANGED <<paths, driver, results>>

(* A hook supplied by the user asserts a literal into the path condition. *)
HookAssert(g) ==
    /\ Fetching
    /\ get_pc_hooks(cur.pc) = "none"
    /\ cur.instruction_counter < MaxInstr
    /\ cur' = AssertAll(cur, {g})
    /\ ev' = Ev("step", NoLit)
    /\ UNCHANGED <<paths, driver, results>>

(***************************************************************************)
(* The fork discipline of the operation interpreter on a symbolic guard g. *)
(* A fork, like a hook's assertion, happens while an instruction is being  *)
(* executed, so both stop with the path's instruction budget.              *)
(***************************************************************************)
ForkCase(C, g) ==
    CASE IsSatWith(C, g) /\ IsSatWith(C, Not(g)) -> "fork_both"
      [] IsSatWith(C, g) \/ IsSatWith(C, Not(g)) -> "fork_one"
      [] OTHER -> "fork_none"

ForkSave(store, state, g) == save_path(store, Path(state, {Not(g)}))
ForkContinue(state, g) == [state EXCEPT !.constraints = state.constraints \cup {g}]

Fork(g) ==
    /\ Fetching
    /\ get_pc_hooks(cur.pc) = "none"
    /\ cur.instruction_counter < MaxInstr
    /\ CASE ForkCase(cur.constraints, g) = "fork_both" ->
              /\ paths' = ForkSave(paths, cur, g)
              /\ cur' = ForkContinue(cur, g)
              /\ ev' = Ev("fork_both", g)
              /\ UNCHANGED <<driver, results>>
         [] ForkCase(cur.constraints, g) = "fork_one" ->
              /\ ev' = Ev("fork_one", g)
              /\ UNCHANGED <<paths, cur, driver, results>>
         [] OTHER ->
              PathEnds("AssumptionUnsat", cur, "fork_none", g)

(***************************************************************************)
(* A solver, memory or decoder error, or an intrinsic returning Err, while *)
(* the path runs.  The interpreter either turns it into Failure(reason) or *)
(* returns it as Err from resume_execution.                                *)
(***************************************************************************)
ErrorRaised ==
    /\ Fetching
    /\ \/ get_pc_hooks(cur.pc) = "none"
       \/ /\ get_pc_hooks(cur.pc) \in {"start_cyclecount", "end_cyclecount"}
          /\ ~Intrinsic(cur).ok

ErrorAsFailure ==
    /\ ErrorRaised
    /\ PathEnds("Failure", cur, "step", NoLit)

ErrorPropagates ==
    /\ ErrorRaised
    /\ RunAborts("step")

LrValues == {Const(EntryPc), Sym(0)}
CycleValues == {0, 1}

(***************************************************************************)
(* Bitvector expressions of the memory model.  A bitvector is the sequence *)
(* of its bits, least significant first; a bit is 0, 1 or, for a cell that *)
(* was never written, the number (>= 2) of an unconstrained bit.  Constant *)
(* addresses are pointer sized and wrap around at AddrSpace.               *)
(***************************************************************************)
BITS_IN_BYTE == 8
AddrSpace == 2 ^ PtrBits
Addrs == 0..(AddrSpace - 1)
AddAddr(addr, offset) == (addr + offset) % AddrSpace

Bit(n, i) == (n \div (2 ^ i)) % 2
ByteBits(n) == [j \in 1..BITS_IN_BYTE |-> Bit(n, j - 1)]
IsConstant(v) == \A i \in 1..Len(v) : v[i] \in {0, 1}

Slice(v, low, high) == SubSeq(v, low + 1, high + 1)
Concat(hi, lo) == lo \o hi
zero_ext(v, width) == v \o [i \in 1..(width - Len(v)) |-> 0]
from_u64(value, size) ==
    [i \in 1..size |-> IF i <= Len(value) THEN value[i] ELSE 0]
Reverse(s) == [i \in 1..Len(s) |-> s[Len(s) + 1 - i]]

(***************************************************************************)
(* ArrayMemory: an array from addresses to 8 bit cells, every cell         *)
(* unconstrained until it is written.                                      *)
(***************************************************************************)
ArrayMemory_new ==
    [a \in Addrs |-> [j \in 1..BITS_IN_BYTE |-> 2 + a * BITS_IN_BYTE + (j - 1)]]

read_u8(memory, addr) == memory[addr]
write_u8(memory, addr, val) == [memory EXCEPT ![addr] = val]

RECURSIVE ReduceConcat(_, _, _)
ReduceConcat(bytes, i, acc) ==
    IF i > Len(bytes)
    THEN acc
    ELSE ReduceConcat(bytes, i + 1, Concat(bytes[i], acc))

ReadBytes(memory, addr, num_bytes) ==
    [b \in 1..num_bytes |-> read_u8(memory, AddAddr(addr, b - 1))]

internal_read_NoReverse(memory, endian, addr, bits) ==
    LET bytes == ReadBytes(memory, addr, bits \div BITS_IN_BYTE)
    IN  ReduceConcat(bytes, 2, bytes[1])

internal_read(memory, endian, addr, bits) ==
    IF bits < BITS_IN_BYTE
    THEN Slice(read_u8(memory, addr), bits - 1, 0)
    ELSE LET bytes == ReadBytes(memory, addr, bits \div BITS_IN_BYTE)
             ordered == IF endian = "Little" THEN bytes ELSE Reverse(bytes)
         IN  ReduceConcat(ordered, 2, ordered[1])

RECURSIVE WriteBytes(_, _, _, _, _)
WriteBytes(memory, endian, addr, value, n) ==
    LET num_bytes == Len(value) \div BITS_IN_BYTE
        low_bit == n * BITS_IN_BYTE
        high_bit == (n + 1) * BITS_IN_BYTE - 1
        byte == Slice(value, low_bit, high_bit)
        offset == IF endian = "Little" THEN n ELSE num_bytes - 1 - n
    IN  IF n >= num_bytes
        THEN memory
        ELSE WriteBytes(write_u8(memory, AddAddr(addr, offset), byte),
                        endian, addr, value, n + 1)

internal_write_IgnoresEndianness(memory, endian, addr, value) ==
    WriteBytes(memory, "Little", addr, value, 0)

internal_write(memory, endian, addr, value) ==
    LET val == IF Len(value) < BITS_IN_BYTE
               THEN zero_ext(value, BITS_IN_BYTE)
               ELSE value
    IN  WriteBytes(memory, endian, addr, val, 0)

(***************************************************************************)
(* The program image (Project): the static range and its ELF bytes.  A     *)
(* read of `bits` bits succeeds when all its bytes lie inside the image    *)
(* and assembles them in the project's endianness.                         *)
(***************************************************************************)
StaticLo == 0
StaticHi == 7
WordSize == 32
address_in_range(address) == address >= StaticLo /\ address <= StaticHi
ElfByte(address) == ByteBits(160 + address)

ProjectGet(endian, address, bits) ==
    LET n == bits \div BITS_IN_BYTE
        bytes == [b \in 1..n |-> ElfByte(address + b - 1)]
        ordered == IF endian = "Little" THEN bytes ELSE Reverse(bytes)
    IN  IF address_in_range(address) /\ address_in_range(address + n - 1)
        THEN [ok |-> TRUE, size |-> bits,
              value |-> ReduceConcat(ordered, 2, ordered[1])]
        ELSE [ok |-> FALSE, size |-> bits, value |-> << >>]

get_word(endian, address) == ProjectGet(endian, address, WordSize)

(***************************************************************************)
(* BoolectorMemory::get and ::set over constant addresses.                 *)
(***************************************************************************)
ReadResult(res, out) == [res |-> res, out |-> out]
WriteResult(res, memory) == [res |-> res, ram |-> memory]

BoolectorMemory_get(memory, endian, idx, size) ==
    IF ~address_in_range(idx)
    THEN ReadResult("Ok", internal_read(memory, endian, idx, size))
    ELSE LET w == ProjectGet(endian, idx, size)
         IN  IF ~w.ok
             THEN ReadResult("MemoryError", << >>)
             ELSE ReadResult("Ok",
                     CASE w.size = 8 -> from_u64(w.value, 8)
                       [] w.size = 16 -> from_u64(w.value, 16)
                       [] w.size = 32 -> from_u64(w.value, 32)
                       [] w.size = 64 -> from_u64(w.value, 32))

BoolectorMemory_set(memory, endian, idx, value) ==
    WriteResult("Ok", internal_write(memory, endian, idx, value))

(***************************************************************************)
(* GAState2::read_word_from_memory and ::write_word_to_memory.             *)
(***************************************************************************)
read_word_from_memory(memory, endian, address) ==
    IF address_in_range(address)
    THEN LET w == get_word(endian, address)
         IN  IF ~w.ok
             THEN ReadResult("MemoryError", << >>)
             ELSE ReadResult("Ok",
                     CASE w.size = 64 -> from_u64(w.value, 64)
                       [] w.size = 32 -> from_u64(w.value, 32)
                       [] w.size = 16 -> from_u64(w.value, 16)
                       [] w.size = 8 -> from_u64(w.value, 8))
    ELSE BoolectorMemory_get(memory, endian, address, WordSize)

write_word_to_memory(memory, endian, address, value) ==
    IF address_in_range(address)
    THEN WriteResult("WritingToStaticMemoryProhibited", memory)
    ELSE BoolectorMemory_set(memory, endian, address, value)

(***************************************************************************)
(* The hook layer: Reader::read_memory and Writer::write_memory return the *)
(* hooks installed on a constant address instead of touching the memory.   *)
(***************************************************************************)
PeripheralAddr == 12
single_memory_read_hook == {PeripheralAddr - 1, PeripheralAddr}
range_memory_read_hook ==
    << <<PeripheralAddr, PeripheralAddr + 1>>,
       <<PeripheralAddr + 1, PeripheralAddr + 1>>,
       <<PeripheralAddr - 2, PeripheralAddr>> >>
single_memory_write_hook == {PeripheralAddr - 1, PeripheralAddr}
range_memory_write_hook ==
    << <<PeripheralAddr, PeripheralAddr + 1>>,
       <<PeripheralAddr + 1, PeripheralAddr + 1>>,
       <<PeripheralAddr - 2, PeripheralAddr>> >>

(* A hook is named by its table entry: the range it was registered for or  *)
(* the single address.  InRanges keeps the registration order of the Vec.  *)
RangeHook(el) == <<"range", el[1], el[2]>>
SingleHook(caddr) == <<"single", caddr, caddr>>
InRanges_UpperExclusive(ranges, caddr) ==
    LET hit == SelectSeq(ranges, LAMBDA el : el[1] <= caddr /\ caddr < el[2])
    IN  [i \in 1..Len(hit) |-> RangeHook(hit[i])]

InRanges(ranges, caddr) ==
    LET hit == SelectSeq(ranges, LAMBDA el : el[1] <= caddr /\ caddr <= el[2])
    IN  [i \in 1..Len(hit) |-> RangeHook(hit[i])]
ReadHooks(hooks) == [res |-> "Hooks", out |-> << >>, hooks |-> hooks]
WriteHooks(hooks, memory) == [res |-> "Hooks", ram |-> memory, hooks |-> hooks]
HooksOf(r) == IF r.res = "Hooks" THEN r.hooks ELSE << >>

read_memory_SingleFirst(memory, endian, addr, size) ==
    IF addr \in single_memory_read_hook
    THEN ReadHooks(<<SingleHook(addr)>> \o InRanges(range_memory_read_hook, addr))
    ELSE IF InRanges(range_memory_read_hook, addr) # << >>
         THEN ReadHooks(InRanges(range_memory_read_hook, addr))
         ELSE BoolectorMemory_get(memory, endian, addr, size)

read_memory(memory, endian, addr, size) ==
    IF addr \in single_memory_read_hook
    THEN ReadHooks(Append(InRanges(range_memory_read_hook, addr), SingleHook(addr)))
    ELSE IF InRanges(range_memory_read_hook, addr) # << >>
         THEN ReadHooks(InRanges(range_memory_read_hook, addr))
         ELSE BoolectorMemory_get(memory, endian, addr, size)

write_memory(memory, endian, addr, value) ==
    IF addr \in single_memory_write_hook
    THEN WriteHooks(Append(InRanges(range_memory_write_hook, addr), SingleHook(addr)),
                    memory)
    ELSE IF InRanges(range_memory_write_hook, addr) # << >>
         THEN WriteHooks(InRanges(range_memory_write_hook, addr), memory)
         ELSE BoolectorMemory_set(memory, endian, addr, value)

(* Reader::read_memory and Writer::write_memory from their first line: an  *)
(* address that is not a constant goes to the memory without a look at the *)
(* hook tables, and BoolectorMemory::get reads the array for it.  `at` is  *)
(* the address the expression stands for.                                  *)
Reader_read_memory(memory, endian, addr, at, size) ==
    IF ~IsConst(addr)
    THEN ReadResult("Ok", internal_read(memory, endian, at, size))
    ELSE read_memory(memory, endian, addr.v, size)

Writer_write_memory(memory, endian, addr, at, value) ==
    IF ~IsConst(addr)
    THEN BoolectorMemory_set(memory, endian, at, value)
    ELSE write_memory(memory, endian, addr.v, value)

(***************************************************************************)
(* Memory operations of a path.  mop records the last operation, what it   *)
(* returned, the last write that reached the array and, when the hook      *)
(* layer answered with hooks, the hooks in the order the caller runs them  *)
(* (first to last of the returned vector).                                 *)
(***************************************************************************)
NoWrite == <<AddrSpace, << >> >>
NoMemOp ==
    [kind |-> "none", entry |-> "none", addr |-> 0, width |-> 0,
     value |-> << >>, res |-> "Ok", out |-> << >>, last_write |-> NoWrite,
     hooks |-> << >>]

Wrote(entry, addr, value, r) ==
    /\ nwrites < MaxWrites
    /\ nwrites' = nwrites + 1
    /\ ram' = r.ram
    /\ mop' = [kind |-> "write", entry |-> entry, addr |-> addr,
               width |-> Len(value), value |-> value, res |-> r.res,
               out |-> << >>,
               last_write |-> IF r.res = "Ok" THEN <<addr, value>>
                              ELSE mop.last_write,
               hooks |-> HooksOf(r)]
    /\ UNCHANGED endianness

HasRead(entry, addr, width, r) ==
    /\ mop' = [kind |-> "read", entry |-> entry, addr |-> addr,
               width |-> width, value |-> << >>, res |-> r.res,
               out |-> r.out, last_write |-> mop.last_write,
               hooks |-> HooksOf(r)]
    /\ UNCHANGED <<ram, endianness, nwrites>>

WriteWordToMemory(addr, value) ==
    Wrote("write_word_to_memory", addr, value,
          write_word_to_memory(ram, endianness, addr, value))

WriterWriteMemory(addr, value) ==
    Wrote("write_memory", addr, value,
          write_memory(ram, endianness, addr, value))

MemorySet(addr, value) ==
    Wrote("set", addr, value, BoolectorMemory_set(ram, endianness, addr, value))

ReadWordFromMemory(addr) ==
    HasRead("read_word_from_memory", addr, WordSize,
            read_word_from_memory(ram, endianness, addr))

ReaderReadMemory(addr, size) ==
    HasRead("read_memory", addr, size,
            read_memory(ram, endianness, addr, size))

MemoryGet(addr, size) ==
    HasRead("get", addr, size, BoolectorMemory_get(ram, endianness, addr, size))

ReaderReadSymbolic(at, size) ==
    HasRead("read_memory_symbolic", at, size,
            Reader_read_memory(ram, endianness, Sym(0), at, size))

WriterWriteSymbolic(at, value) ==
    Wrote("write_memory_symbolic", at, value,
          Writer_write_memory(ram, endianness, Sym(0), at, value))

Widths == {8, 16, 32, 64}
Word(width) ==
    ReduceConcat([b \in 1..(width \div BITS_IN_BYTE) |-> ByteBits(17 * b)],
                 1, << >>)
Values == {Word(w) : w \in Widths}
AccessAddrs ==
    {StaticLo, StaticHi, StaticHi + 1, PeripheralAddr, AddrSpace - 1}

(***************************************************************************)
(* The register file.  GAState2 keeps the program counter as a number in   *)
(* the memory and every other register in BoolectorMemory.register_file;   *)
(* GAState keeps all registers in one map.  PC+ is a hooked name: reads    *)
(* give PC + 1 and writes go to PC.                                        *)
(***************************************************************************)
RegNames == {"R0", "R1", "SP", "LR", "PC", "PC+"}
FlagNames == {"N", "Z", "C", "V"}
Absent == [k |-> "absent", v |-> 0]
Unconstrained(name, id) == [k |-> "unconstrained", name |-> name, id |-> id]
Add(e, n) ==
    IF IsConst(e)
    THEN Const((e.v + n) % (2 ^ RegBits))
    ELSE [k |-> "add", lhs |-> e, rhs |-> n]
register_read_hook == {"PC+"}
register_write_hook == {"PC+"}

RegState(file, flags, pcv, n) ==
    [register_file |-> file, flags |-> flags, pc |-> pcv, nsym |-> n]
RegRead(res, out, state) == [res |-> res, out |-> out, state |-> state]
RegWrite(res, state) == [res |-> res, state |-> state]

(* BoolectorMemory::get_register: the default symbol is built before the   *)
(* lookup (unwrap_or), the value returned is stored back.                  *)
BoolectorMemory_get_register_NoInsert(s, idx) ==
    LET fresh == Unconstrained(idx, s.nsym)
        ret == IF s.register_file[idx] # Absent THEN s.register_file[idx] ELSE fresh
    IN  RegRead("Ok", ret, [s EXCEPT !.nsym = s.nsym + 1])

BoolectorMemory_get_register(s, idx) ==
    LET fresh == Unconstrained(idx, s.nsym)
        ret == IF s.register_file[idx] # Absent THEN s.register_file[idx] ELSE fresh
    IN  RegRead("Ok", ret,
                [s EXCEPT !.nsym = s.nsym + 1, !.register_file[idx] = ret])

BoolectorMemory_set_register(s, idx, value) ==
    RegWrite("Ok", [s EXCEPT !.register_file[idx] = value])

get_pc(s) == Const(s.pc)
set_pc(s, value) == RegWrite("Ok", [s EXCEPT !.pc = value])

(* GAState2::get_register / ::set_register with the ARM hooks resolved.    *)
GAState2_get_register_PlusTwo(s, register) ==
    IF register = "PC"
    THEN RegRead("Ok", get_pc(s), s)
    ELSE IF register \in register_read_hook
         THEN RegRead("Ok", Add(get_pc(s), 2), s)
         ELSE BoolectorMemory_get_register(s, register)

GAState2_get_register(s, register) ==
    IF register = "PC"
    THEN RegRead("Ok", get_pc(s), s)
    ELSE IF register \in register_read_hook
         THEN RegRead("Ok", Add(get_pc(s), 1), s)
         ELSE BoolectorMemory_get_register(s, register)

GAState2_set_register_DefaultsToZero(s, register, expr) ==
    IF register = "PC" \/ register \in register_write_hook
    THEN set_pc(s, IF IsConst(expr) THEN expr.v ELSE 0)
    ELSE BoolectorMemory_set_register(s, register, expr)

GAState2_set_register(s, register, expr) ==
    IF register = "PC" \/ register \in register_write_hook
    THEN IF IsConst(expr)
         THEN set_pc(s, expr.v)
         ELSE RegWrite("NonDeterministicPC", s)
    ELSE BoolectorMemory_set_register(s, register, expr)

(* GAState::get_register / ::set_register (the first implementation).      *)
GAState_lookup(s, register) ==
    IF s.register_file[register] # Absent
    THEN RegRead("Ok", s.register_file[register], s)
    ELSE LET value == Unconstrained(register, s.nsym)
         IN  RegRead("Ok", value,
                     [s EXCEPT !.nsym = s.nsym + 1,
                               !.register_file[register] = value])

GAState_get_register(s, register) ==
    IF register \in register_read_hook
    THEN LET pc == GAState_lookup(s, "PC")
         IN  RegRead("Ok", Add(pc.out, 1), pc.state)
    ELSE GAState_lookup(s, register)

GAState_set_register(s, register, expr) ==
    LET target == IF register \in register_write_hook THEN "PC" ELSE register
    IN  IF target = "PC" /\ ~IsConst(expr)
        THEN RegWrite("panic", s)
        ELSE RegWrite("Ok",
                 [s EXCEPT !.register_file[target] = expr,
                           !.pc = IF target = "PC" THEN expr.v ELSE s.pc])

get_register(s, register) ==
    IF impl = "GAState2"
    THEN GAState2_get_register(s, register)
    ELSE GAState_get_register(s, register)

set_register(s, register, expr) ==
    IF impl = "GAState2"
    THEN GAState2_set_register(s, register, expr)
    ELSE GAState_set_register(s, register, expr)

StorageOf(register) == IF register \in register_write_hook THEN "PC" ELSE register
NoExpr == [k |-> "none", v |-> 0]
NoRegOp ==
    [kind |-> "none", reg |-> "R0", res |-> "Ok", out |-> NoExpr,
     prev |-> NoExpr, n |-> 0, written |-> {},
     last |-> [r \in RegNames |-> NoExpr]]

GetRegister(register) ==
    LET r == get_register(regs, register)
    IN  /\ rop.n < MaxRegOps
        /\ rop.res = "Ok"
        /\ regs' = r.state
        /\ rop' = [kind |-> "read", reg |-> register, res |-> r.res,
                   out |-> r.out, prev |-> rop.last[register],
                   n |-> rop.n + 1, written |-> rop.written,
                   last |-> [rop.last EXCEPT ![register] = r.out]]
        /\ UNCHANGED impl

SetRegister(register, expr) ==
    LET r == set_register(regs, register, expr)
    IN  /\ rop.n < MaxRegOps
        /\ rop.res = "Ok"
        /\ regs' = r.state
        /\ rop' = [kind |-> "write", reg |-> register, res |-> r.res,
                   out |-> expr, prev |-> NoExpr, n |-> rop.n + 1,
                   written |-> IF r.res = "Ok"
                               THEN rop.written \cup {StorageOf(register)}
                               ELSE rop.written,
                   last |-> rop.last]
        /\ UNCHANGED impl

RegValues == {Const(EntryPc), Const(StartCcPc), Const(2 ^ RegBits - 1), Sym(0)}

(***************************************************************************)
(* Starting a run.  run_elf installs the end-PC hook and builds the first  *)
(* state with GAState::new; SymexArbiter::run looks the entry up among the *)
(* subprograms and builds it with GAState2::new over a fresh               *)
(* BoolectorMemory.  The path-level fields of the state live in cur, its   *)
(* registers in regs; the ELF is an input: which symbols it defines.       *)
(***************************************************************************)
StackStart == 8
Elf(subprogram, entry, stack) ==
    [subprogram |-> subprogram, entry |-> entry, stack |-> stack, err |-> "none"]
NoRun == Elf(TRUE, TRUE, TRUE)

FirstState(last_pc) ==
    [live |-> TRUE,
     constraints |-> {},
     cycle_count |-> 0,
     count_cycles |-> TRUE,
     instruction_counter |-> 0,
     last_pc |-> last_pc,
     any_counter |-> 0,
     has_jumped |-> FALSE,
     instruction_conditions |-> << >>,
     last_instruction |-> << >>,
     current_instruction |-> << >>,
     continue_in_instruction |-> << >>]

Created(res, state, registers) ==
    [res |-> res, state |-> state, registers |-> registers]

(* BoolectorMemory::new: empty register file, empty flags, pc 0. *)
BoolectorMemory_new ==
    RegState([r \in RegNames \ {"PC+"} |-> Absent],
             [f \in FlagNames |-> Absent], 0, 0)

(* GAState2::new.  The maps `registers` and `flags` it fills are locals    *)
(* that are dropped: the state returned holds the fresh memory only.       *)
GAState2_new_NoStackCheck(elf, end_address) ==
    IF ~elf.entry
    THEN Created("EntryFunctionNotFound", NoState, BoolectorMemory_new)
    ELSE Created("Ok", FirstState(0), BoolectorMemory_new)

GAState2_new(elf, end_address) ==
    IF ~elf.entry
    THEN Created("EntryFunctionNotFound", NoState, BoolectorMemory_new)
    ELSE IF ~elf.stack
         THEN Created("UnableToParseElf", NoState, BoolectorMemory_new)
         ELSE Created("Ok", FirstState(0), BoolectorMemory_new)

(* GAState::new: PC, SP and LR are stored, the four flags are fresh        *)
(* unconstrained bits.                                                     *)
GAState_new(elf, end_address) ==
    IF ~elf.entry
    THEN Created("EntryFunctionNotFound", NoState, BoolectorMemory_new)
    ELSE IF ~elf.stack
         THEN Created("UnableToParseElf", NoState, BoolectorMemory_new)
         ELSE Created("Ok", FirstState(EntryPc),
                  RegState([r \in RegNames \ {"PC+"} |->
                               CASE r = "PC" -> Const(EntryPc)
                                 [] r = "SP" -> Const(StackStart)
                                 [] r = "LR" -> Const(end_address)
                                 [] OTHER -> Absent],
                           [f \in FlagNames |-> Unconstrained(f, 0)],
                           EntryPc, 0))

(* VM::new: the state is built and, if that succeeded, saved as the first  *)
(* path; an error leaves no VM behind.                                     *)
VM_new(elf, end_pc) ==
    LET state == IF impl = "GAState2"
                 THEN GAState2_new(elf, end_pc)
                 ELSE GAState_new(elf, end_pc)
    IN  IF state.res = "Ok"
        THEN [res |-> "Ok",
              paths |-> save_path(<< >>, Path(state.state, {})),
              registers |-> state.registers]
        ELSE [res |-> state.res, paths |-> << >>, registers |-> state.registers]

(* SymexArbiter::run up to its loop: the entry is first looked up by name  *)
(* among the subprograms.  run_elf has no such lookup.                     *)
StartRun(elf, end_pc) ==
    IF impl = "GAState2" /\ ~elf.subprogram
    THEN [res |-> "EntryFunctionNotFound", paths |-> << >>, registers |-> regs]
    ELSE VM_new(elf, end_pc)

ArbiterRun ==
    LET vm == StartRun(run, EndPcAddr)
    IN  /\ driver = "new"
        /\ paths' = vm.paths
        /\ regs' = IF vm.res = "Ok" THEN vm.registers ELSE regs
        /\ driver' = IF vm.res = "Ok" THEN "idle" ELSE "aborted"
        /\ run' = [run EXCEPT !.err = IF vm.res = "Ok" THEN "none" ELSE vm.res]
        /\ ev' = Ev("start", NoLit)
        /\ UNCHANGED <<cur, results, impl, rop>>

(***************************************************************************)
(* The PC hooks of a run.  HookContainer::default installs the failure,    *)
(* suppress and cycle count hooks on the subprograms it finds by name; a   *)
(* user may add a Continue hook.  run_elf installs the same defaults and,  *)
(* before it builds the VM, EndSuccess at the end-PC sentinel.  The image  *)
(* holds code from its base address on; the sentinel lies outside it.      *)
(***************************************************************************)
UnwrapPc == 14
ContinuePc == 16
ImageBase == 0
RunAddrs == CodeAddrs \cup {ImageBase, UnwrapPc, ContinuePc}
TextAddrs == RunAddrs \ {EndPcAddr}

Hook(variant, arg) == [variant |-> variant, arg |-> arg]
NoHook == Hook("none", "none")

HookContainer_default ==
    [a \in RunAddrs |->
        CASE a = PanicPc -> Hook("EndFailure", "panic")
          [] a = UnwrapPc -> Hook("EndFailure", "unwrap failed")
          [] a = SuppressPc -> Hook("Suppress", "none")
          [] a = StartCcPc -> Hook("Intrinsic", "start_cyclecount")
          [] a = EndCcPc -> Hook("Intrinsic", "end_cyclecount")
          [] OTHER -> NoHook]

add_pc_hook(hooks, pc, hook) == [hooks EXCEPT ![pc] = hook]

PcHooks ==
    IF impl = "GAState2"
    THEN add_pc_hook(HookContainer_default, ContinuePc, Hook("Continue", "none"))
    ELSE add_pc_hook(
             add_pc_hook(HookContainer_default, ContinuePc, Hook("Continue", "none")),
             EndPcAddr, Hook("EndSuccess", "none"))

(* get_next_instruction: bit 0 of the PC is cleared, a hook at the address *)
(* is returned instead of the instruction, otherwise the project decodes.  *)
ClearBit0(pc) == pc - (pc % 2)

Fetched(kind, pc, hook) == [kind |-> kind, pc |-> pc, hook |-> hook]

get_next_instruction_KeepsBit0(s) ==
    LET pc == s.pc
    IN  IF pc \in RunAddrs /\ PcHooks[pc] # NoHook
        THEN Fetched("PcHook", pc, PcHooks[pc])
        ELSE IF pc \in TextAddrs \/ ClearBit0(pc) \in TextAddrs
             THEN Fetched("Instruction", pc, NoHook)
             ELSE Fetched("Err", pc, NoHook)

get_next_instruction(s) ==
    LET pc == ClearBit0(s.pc)
    IN  IF pc \in RunAddrs /\ PcHooks[pc] # NoHook
        THEN Fetched("PcHook", pc, PcHooks[pc])
        ELSE IF pc \in TextAddrs
             THEN Fetched("Instruction", pc, NoHook)
             ELSE Fetched("Err", pc, NoHook)

(* The solver's enumeration of an expression's values, capped at n: an     *)
(* if-then-else over one free bit has its two arms, a free word has every  *)
(* word of the address space.                                              *)
Ite(c, a, b) == [k |-> "ite", c |-> c, a |-> a, b |-> b]

SolutionsOf(expr) ==
    CASE IsConst(expr) -> {expr.v}
      [] expr.k = "ite" -> {expr.a, expr.b}
      [] OTHER -> 0..(AddrSpace - 1)

get_values(expr, n) ==
    IF Cardinality(SolutionsOf(expr)) <= n
    THEN [kind |-> "Exactly", values |-> SolutionsOf(expr)]
    ELSE [kind |-> "AtLeast", values |-> {}]

(***************************************************************************)
(* One step of the interpreter on the running path: fetch, then the hook   *)
(* or the instruction.  Instructions are the ones that touch the PC and    *)
(* the registers it is loaded from: a branch to an address, a branch to a  *)
(* register and a register move.  A register write that fails ends the     *)
(* step with that error; a todo!() reached in set_register panics.         *)
(***************************************************************************)
Panics == {"panic"}

LastWrite(register, expr, res) ==
    [NoRegOp EXCEPT !.kind = "write", !.reg = register, !.out = expr,
                    !.res = res]

StepGoesOn(state, registers, op) ==
    /\ cur' = state
    /\ regs' = registers
    /\ ev' = Ev(op, NoLit)
    /\ UNCHANGED <<paths, driver, results>>

StepPanics(registers, op) ==
    /\ cur' = NoState
    /\ regs' = registers
    /\ driver' = "panicked"
    /\ ev' = Ev(op, NoLit)
    /\ UNCHANGED <<paths, results>>

StepFails(state, registers, op) ==
    /\ regs' = registers
    /\ \/ PathEnds("Failure", state, op, NoLit)
       \/ RunAborts(op)

StepOutcome(res, state, registers, op) ==
    CASE res = "Ok" -> StepGoesOn(state, registers, op)
      [] res \in Panics -> StepPanics(registers, op)
      [] OTHER -> StepFails(state, registers, op)

(* PC <- LR, as the intrinsics and a Continue hook return to the caller.   *)
ReturnToCaller(s) ==
    LET lr == get_register(s, "LR")
        w == set_register(lr.state, "PC", lr.out)
    IN  [res |-> w.res, state |-> w.state, expr |-> lr.out]

RunFetching == driver = "exec" /\ cur.live

FailureWith(reason) ==
    CASE reason = "panic" -> "Failure(panic)"
      [] reason = "unwrap failed" -> "Failure(unwrap failed)"
      [] OTHER -> "Failure"

StepHookEnds ==
    LET f == get_next_instruction(regs)
    IN  /\ RunFetching
        /\ f.kind = "PcHook"
        /\ f.hook.variant \in {"EndSuccess", "EndFailure", "Suppress"}
        /\ PathEnds(CASE f.hook.variant = "EndSuccess" -> "Success"
                      [] f.hook.variant = "EndFailure" -> FailureWith(f.hook.arg)
                      [] OTHER -> "Suppress",
                    cur, "hook", NoLit)
        /\ UNCHANGED <<impl, regs, rop, run>>

StepHookContinue ==
    LET f == get_next_instruction(regs)
        r == ReturnToCaller(regs)
    IN  /\ RunFetching
        /\ f.kind = "PcHook"
        /\ f.hook.variant = "Continue"
        /\ StepOutcome(r.res, cur, r.state, "hook")
        /\ rop' = LastWrite("PC", r.expr, r.res)
        /\ UNCHANGED <<impl, run>>

RunIntrinsic(name, state) ==
    IF name = "start_cyclecount"
    THEN [state EXCEPT !.cycle_count = 0]
    ELSE [state EXCEPT !.count_cycles = FALSE]

StepHookIntrinsic ==
    LET f == get_next_instruction(regs)
        r == ReturnToCaller(regs)
    IN  /\ RunFetching
        /\ f.kind = "PcHook"
        /\ f.hook.variant = "Intrinsic"
        /\ StepOutcome(r.res, RunIntrinsic(f.hook.arg, cur), r.state, "hook")
        /\ rop' = LastWrite("PC", r.expr, r.res)
        /\ UNCHANGED <<impl, run>>

(* b target *)
StepBranch(target) ==
    LET f == get_next_instruction(regs)
        w == set_register(regs, "PC", Const(target))
    IN  /\ RunFetching
        /\ f.kind = "Instruction"
        /\ cur.instruction_counter < MaxInstr
        /\ StepOutcome(w.res, increment_instruction_count(cur), w.state, "decode")
        /\ rop' = LastWrite("PC", Const(target), w.res)
        /\ UNCHANGED <<impl, run>>

(* bx register *)
StepBranchRegister(register) ==
    LET f == get_next_instruction(regs)
        v == get_register(regs, register)
        w == set_register(v.state, "PC", v.out)
    IN  /\ RunFetching
        /\ f.kind = "Instruction"
        /\ cur.instruction_counter < MaxInstr
        /\ StepOutcome(w.res, increment_instruction_count(cur), w.state, "decode")
        /\ rop' = LastWrite("PC", v.out, w.res)
        /\ UNCHANGED <<impl, run>>

(* mov register, operand: the PC stays inside the function's body *)
StepMove(register, expr) ==
    LET f == get_next_instruction(regs)
        w == set_register(regs, register, expr)
    IN  /\ RunFetching
        /\ f.kind = "Instruction"
        /\ cur.instruction_counter < MaxInstr
        /\ StepOutcome(w.res, increment_instruction_count(cur), w.state, "decode")
        /\ rop' = LastWrite(register, expr, w.res)
        /\ UNCHANGED <<impl, run>>

(* The cap on instruction_counter: a path that has executed MaxInstr       *)
(* instructions and is about to execute another ends with a failure.       *)
StepCapReached ==
    LET f == get_next_instruction(regs)
    IN  /\ RunFetching
        /\ f.kind = "Instruction"
        /\ cur.instruction_counter >= MaxInstr
        /\ PathEnds("Failure", cur, "cap", NoLit)
        /\ UNCHANGED <<impl, regs, rop, run>>

(* No hook and nothing to decode at the PC: get_instruction returns Err.   *)
StepDecodeError ==
    LET f == get_next_instruction(regs)
    IN  /\ RunFetching
        /\ f.kind = "Err"
        /\ StepFails(cur, regs, "decode_error")
        /\ UNCHANGED <<impl, rop, run>>

BranchTargets ==
    {EntryPc + 1, PanicPc + 1, UnwrapPc, SuppressPc, StartCcPc + 1, EndCcPc,
     ContinuePc + 1, EndPcAddr}
MoveRegisters == {"R0", "LR"}
BranchRegisters == {"R0", "LR"}
Operands == {Const(EndPcAddr), Const(PanicPc + 1), Sym(0), Ite(0, PanicPc, SuppressPc)}

(***************************************************************************)
(* The symbolic_size<T> intrinsic installed by ArmV6M::add_hooks: the      *)
(* memory at the pointer in R0 becomes a fresh symbol of 8 * R1 bits and   *)
(* the path returns to its caller.  A symbol is a sequence of bits no      *)
(* other expression of the path holds.                                     *)
(***************************************************************************)
SymbolicSizePc == 18
FreshBase == 2 + AddrSpace * BITS_IN_BYTE

label_new_symbolic_Reused(state) ==
    [name |-> state.any_counter, state |-> state]

label_new_symbolic(state) ==
    [name |-> state.any_counter,
     state |-> [state EXCEPT !.any_counter = state.any_counter + 1]]

unconstrained_Zero(name, size) == [i \in 1..size |-> 0]

unconstrained(name, size) ==
    [i \in 1..size |-> FreshBase + name * (BITS_IN_BYTE * BITS_IN_BYTE) + (i - 1)]

Marked(res, state, registers, memory, addr, value, expr) ==
    [res |-> res, state |-> state, registers |-> registers, ram |-> memory,
     addr |-> addr, value |-> value, expr |-> expr]

symbolic_sized(state, registers, memory, endian) ==
    LET value_ptr == get_register(registers, "R0")
        size == get_register(value_ptr.state, "R1")
        label == label_new_symbolic(state)
    IN  IF ~IsConst(size.out)
        THEN Marked("panic", state, size.state, memory, 0, << >>, NoExpr)
        ELSE LET symb_value == unconstrained(label.name, size.out.v * BITS_IN_BYTE)
                 w == BoolectorMemory_set(memory, endian, value_ptr.out.v, symb_value)
                 r == ReturnToCaller(size.state)
             IN  Marked(r.res, label.state, r.state, w.ram,
                        value_ptr.out.v, symb_value, r.expr)

StepSymbolicSized ==
    LET r == symbolic_sized(cur, regs, ram, endianness)
    IN  /\ RunFetching
        /\ ClearBit0(regs.pc) = SymbolicSizePc
        /\ IsConst(get_register(regs, "R0").out)
        /\ cur.any_counter < MaxSymbols
        /\ StepOutcome(r.res, r.state, r.registers, "hook")
        /\ rop' = LastWrite("PC", r.expr, r.res)
        /\ ram' = r.ram
        /\ mop' = IF r.res \in Panics
                  THEN mop
                  ELSE [NoMemOp EXCEPT !.kind = "write", !.entry = "symbolic_size",
                                       !.addr = r.addr, !.width = Len(r.value),
                                       !.value = r.value,
                                       !.last_write = <<r.addr, r.value>>]
        /\ UNCHANGED <<impl, run, endianness, nwrites>>

SymPointers == {StaticHi, StaticHi + 1, AddrSpace - 1}
SymSizes == {Const(1), Const(4), Absent}
SymReturns == {EntryPc, SymbolicSizePc}
SymWidths == {8, 32}

(***************************************************************************)
(* Hooks installed by subprogram name.  A name is the sequence of its      *)
(* pieces; a pattern is a literal anchored at the start of the name, an    *)
(* optional starred item after it ("_" for `_*`, "." for `.*`) and an      *)
(* optional anchor at the end.  Regex::is_match searches, so a pattern     *)
(* without the end anchor matches whatever follows.                        *)
(***************************************************************************)
MaxMissing == 1     \* subprograms the ELF may lack
MaxHookAdds == 2    \* add_pc_hook_regex calls made after construction

NameOrder ==
    << <<"main">>, <<"panic">>, <<"panic", "_">>, <<"panic", "_", "fmt">>,
       <<"panic", "_", "cold_explicit">>, <<"unwrap_failed">>,
       <<"panic", "_", "bounds_check">>, <<"unreachable_unchecked">>,
       <<"suppress_path">>, <<"start_cyclecount">>, <<"end_cyclecount">> >>
FnNames == {NameOrder[i] : i \in 1..Len(NameOrder)}

Regex(lit, star, end) == [lit |-> lit, star |-> star, end |-> end]
Exact(name) == Regex(name, "", TRUE)

is_match(re, name) ==
    /\ Len(name) >= Len(re.lit)
    /\ SubSeq(name, 1, Len(re.lit)) = re.lit
    /\ re.end =>
          \A i \in (Len(re.lit) + 1)..Len(name) :
             \/ re.star = "."
             \/ re.star = "_" /\ name[i] = "_"

(* SubProgramMap::insert keeps one SubProgram per name, with its bounds. *)
StartOf(name) == 2 * (CHOOSE i \in 1..Len(NameOrder) : NameOrder[i] = name)
SubProgram(name) == [name |-> name, bounds |-> <<StartOf(name), StartOf(name) + 2>>]
InstallAddrs == {StartOf(n) : n \in FnNames}

(* get_by_regex returns the first match met while iterating a HashMap, so  *)
(* any of the matching subprograms; no match is None (the empty set).      *)
get_by_regex(map, pattern) == {SubProgram(n) : n \in {m \in map : is_match(pattern, m)}}

HookContainer_new == [a \in InstallAddrs |-> NoHook]

Outcome(res, pattern, container) == [res |-> res, pattern |-> pattern, container |-> container]
NoPattern == Regex(<< >>, "", FALSE)

add_pc_hook_regex_Partial(container, map, pattern, hook) ==
    IF get_by_regex(map, pattern) = {}
    THEN {Outcome("EntryFunctionNotFound", pattern,
                  add_pc_hook(container, StartOf(<<"main">>), hook))}
    ELSE {Outcome("Ok", pattern, add_pc_hook(container, program.bounds[1], hook)) :
             program \in get_by_regex(map, pattern)}

add_pc_hook_regex(container, map, pattern, hook) ==
    IF get_by_regex(map, pattern) = {}
    THEN {Outcome("EntryFunctionNotFound", pattern, container)}
    ELSE {Outcome("Ok", pattern, add_pc_hook(container, program.bounds[1], hook)) :
             program \in get_by_regex(map, pattern)}

(* The `?` after each add_pc_hook_regex of HookContainer::default. *)
RECURSIVE InstallEach(_, _, _)
InstallEach(list, map, outcome) ==
    IF list = << >>
    THEN {outcome}
    ELSE UNION {IF o.res = "Ok" THEN InstallEach(Tail(list), map, o) ELSE {o} :
                   o \in add_pc_hook_regex(outcome.container, map,
                                           Head(list)[1], Head(list)[2])}

HookContainer_default_map(map) ==
    InstallEach(
        << <<Exact(<<"panic", "_">>), Hook("EndFailure", "panic")>>,
           <<Exact(<<"panic", "_", "cold_explicit">>), Hook("EndFailure", "explicit panic")>>,
           <<Exact(<<"unwrap_failed">>), Hook("EndFailure", "unwrap failed")>>,
           <<Exact(<<"panic", "_", "bounds_check">>), Hook("EndFailure", "bounds check failed")>>,
           <<Exact(<<"unreachable_unchecked">>), Hook("EndFailure", "unreachable")>>,
           <<Exact(<<"suppress_path">>), Hook("Suppress", "none")>>,
           <<Exact(<<"start_cyclecount">>), Hook("Intrinsic", "start_cyclecount")>>,
           <<Exact(<<"end_cyclecount">>), Hook("Intrinsic", "end_cyclecount")>> >>,
        map, Outcome("Ok", NoPattern, HookContainer_new))

(* The first implementation: the list of run_elf.rs, applied to every      *)
(* subprogram in list order, a later match replacing an earlier one.       *)
add_architecture_independent_hooks ==
    << <<Exact(<<"panic", "_", "cold_explicit">>), Hook("EndFailure", "explicit panic")>>,
       <<Exact(<<"unwrap_failed">>), Hook("EndFailure", "unwrap failed")>>,
       <<Exact(<<"panic", "_", "bounds_check">>), Hook("EndFailure", "bounds check panic")>>,
       <<Exact(<<"suppress_path">>), Hook("Suppress", "none")>>,
       <<Exact(<<"unreachable_unchecked">>), Hook("EndFailure", "unreachable")>>,
       <<Exact(<<"start_cyclecount">>), Hook("Intrinsic", "start_cyclecount")>>,
       <<Exact(<<"end_cyclecount">>), Hook("Intrinsic", "end_cyclecount")>>,
       <<Regex(<<"panic">>, "_", FALSE), Hook("EndFailure", "panic")>> >>

construct_pc_hooks_no_index(hooks, map) ==
    [a \in InstallAddrs |->
        LET found == {i \in 1..Len(hooks) :
                         \E n \in map : StartOf(n) = a /\ is_match(hooks[i][1], n)}
        IN  IF found = {}
            THEN NoHook
            ELSE hooks[CHOOSE i \in found : \A j \in found : j <= i][2]]

Installed(defaults, last, adds) == [defaults |-> defaults, last |-> last, adds |-> adds]
NoProbe == [name |-> << >>, pc |-> 0, result |-> "none"]
HasContainer == installed.defaults # "Err"

(* HookContainer::default(map), or the hooks the first implementation's    *)
(* project builds from the list of run_elf.rs.                             *)
InstallDefault ==
    /\ installed.defaults = "none"
    /\ installed.adds = 0
    /\ installed' \in
          IF impl = "GAState2"
          THEN {Installed(IF o.res = "Ok" THEN "Ok" ELSE "Err", o, 0) :
                   o \in HookContainer_default_map(symbols)}
          ELSE {Installed("Ok",
                          Outcome("Ok", NoPattern,
                                  construct_pc_hooks_no_index(
                                      add_architecture_independent_hooks, symbols)),
                          0)}
    /\ UNCHANGED <<symbols, probe>>

(* hooks.add_pc_hook_regex(map, pattern, hook) on an existing container. *)
AddPcHookRegex(pattern, hook) ==
    /\ impl = "GAState2"
    /\ HasContainer
    /\ installed.adds < MaxHookAdds
    /\ installed' \in
          {Installed(installed.defaults, o, installed.adds + 1) :
              o \in add_pc_hook_regex(installed.last.container, symbols, pattern, hook)}
    /\ UNCHANGED <<symbols, probe>>

(* What a path does when its PC is the start of a subprogram: the hook at  *)
(* the address, if any, decides (get_next_instruction, then the executor). *)
HookOutcome(hook) ==
    CASE hook.variant = "EndSuccess" -> "Success"
      [] hook.variant = "EndFailure" -> "Failure"
      [] hook.variant = "Suppress" -> "Suppress"
      [] hook.variant = "none" -> "instruction"
      [] OTHER -> "continues"

ReachSubprogram(name) ==
    /\ HasContainer
    /\ name \in symbols
    /\ probe' = [name |-> name, pc |-> StartOf(name),
                 result |-> HookOutcome(installed.last.container[ClearBit0(StartOf(name))])]
    /\ UNCHANGED <<symbols, installed>>

HookPatterns == {Exact(<<"panic", "_">>), Regex(<<"panic">>, "_", FALSE),
                 Exact(<<"suppress_path">>), Exact(<<"absent">>)}
HookChoices == {Hook("EndFailure", "user")}

(***************************************************************************)
(* Executing one instruction on a test state.  create_test_state stores PC *)
(* and SP and makes the four flags unconstrained bits; a test then sets    *)
(* the registers and flags it needs.  The instructions are ADC{S} Rd, Rn,  *)
(* Rm and B<cond> target, both 16 bits long.  Words are RegBits wide; an   *)
(* unconstrained flag C or V is the solver's variable 1 or 2.              *)
(***************************************************************************)
instruction_size == 16
InstrRegs == {"R1", "R2", "SP", "PC"}

BitNot(e) == IF IsConst(e) THEN Const(1 - e.v) ELSE [k |-> "not", v |-> e]
BitAnd(a, b) ==
    IF IsConst(a) /\ IsConst(b)
    THEN Const(a.v * b.v)
    ELSE [k |-> "and", lhs |-> a, rhs |-> b]
BitOr(a, b) ==
    IF IsConst(a) /\ IsConst(b)
    THEN Const(IF a.v + b.v > 0 THEN 1 ELSE 0)
    ELSE [k |-> "or", lhs |-> a, rhs |-> b]
BitXor(a, b) ==
    IF IsConst(a) /\ IsConst(b)
    THEN Const((a.v + b.v) % 2)
    ELSE [k |-> "xor", lhs |-> a, rhs |-> b]
BitEq(a, b) ==
    IF IsConst(a) /\ IsConst(b)
    THEN Const(IF a.v = b.v THEN 1 ELSE 0)
    ELSE [k |-> "eq", lhs |-> a, rhs |-> b]
BitNe(a, b) ==
    IF IsConst(a) /\ IsConst(b)
    THEN Const(IF a.v # b.v THEN 1 ELSE 0)
    ELSE [k |-> "ne", lhs |-> a, rhs |-> b]

(* GAState::create_test_state *)
create_test_state(start_pc, start_stack) ==
    Created("Ok", FirstState(start_pc),
        RegState([r \in InstrRegs |->
                     CASE r = "PC" -> Const(start_pc)
                       [] r = "SP" -> Const(start_stack)
                       [] OTHER -> Absent],
                 [f \in FlagNames |-> Unconstrained(f, 0)],
                 start_pc, 0))

(* GAState::set_flag / ::get_flag.  Every constructor of GAState inserts   *)
(* the four flags and nothing removes one, so the lookup finds its key.    *)
set_flag_Dropped(s, flag, expr) == s

set_flag(s, flag, expr) == [s EXCEPT !.flags[flag] = expr]

get_flag(s, flag) == s.flags[flag]

(* GAState::get_expr: the guard of a condition over the current flags.     *)
get_expr_CarryInverted(s, condition) ==
    CASE condition = "EQ" -> get_flag(s, "Z")
      [] condition = "NE" -> BitNot(get_flag(s, "Z"))
      [] condition = "CS" -> BitNot(get_flag(s, "C"))
      [] condition = "CC" -> get_flag(s, "C")
      [] condition = "MI" -> get_flag(s, "N")
      [] condition = "PL" -> BitNot(get_flag(s, "N"))
      [] condition = "VS" -> get_flag(s, "V")
      [] condition = "VC" -> BitNot(get_flag(s, "V"))
      [] OTHER -> Const(1)

get_expr(s, condition) ==
    CASE condition = "EQ" -> get_flag(s, "Z")
      [] condition = "NE" -> BitNot(get_flag(s, "Z"))
      [] condition = "CS" -> get_flag(s, "C")
      [] condition = "CC" -> BitNot(get_flag(s, "C"))
      [] condition = "MI" -> get_flag(s, "N")
      [] condition = "PL" -> BitNot(get_flag(s, "N"))
      [] condition = "VS" -> get_flag(s, "V")
      [] condition = "VC" -> BitNot(get_flag(s, "V"))
      [] condition = "HI" -> BitAnd(get_flag(s, "C"), BitNot(get_flag(s, "Z")))
      [] condition = "LS" -> BitOr(BitNot(get_flag(s, "C")), get_flag(s, "Z"))
      [] condition = "GE" -> BitNot(BitXor(get_flag(s, "N"), get_flag(s, "V")))
      [] condition = "LT" -> BitNe(get_flag(s, "N"), get_flag(s, "V"))
      [] condition = "GT" ->
             BitAnd(BitNot(get_flag(s, "Z")),
                    BitEq(get_flag(s, "N"), get_flag(s, "V")))
      [] condition = "LE" ->
             BitAnd(get_flag(s, "Z"), BitNe(get_flag(s, "N"), get_flag(s, "V")))
      [] OTHER -> Const(1)

reset_has_jumped(state) == [state EXCEPT !.has_jumped = FALSE]
set_has_jumped(state) == [state EXCEPT !.has_jumped = TRUE]

(* The sum of two words and a carry: the result, the carry out of the top  *)
(* bit and the overflow of the signed sum.                                 *)
Signed(v) == IF v >= 2 ^ (RegBits - 1) THEN v - 2 ^ RegBits ELSE v
AddWithCarry(x, y, carry_in) ==
    LET unsigned_sum == x + y + carry_in
        signed_sum == Signed(x) + Signed(y) + carry_in
        result == unsigned_sum % (2 ^ RegBits)
    IN  [result |-> result,
         carry |-> IF result = unsigned_sum THEN 0 ELSE 1,
         overflow |-> IF Signed(result) = signed_sum THEN 0 ELSE 1]

Executed(res, state, registers, written, expr) ==
    [res |-> res, state |-> state, registers |-> registers,
     written |-> written, expr |-> expr]

(* The operations of ADC{S} Rd, Rn, Rm. *)
Adc(state, registers, s, rd, rn, rm) ==
    LET n == get_register(registers, rn)
        m == get_register(n.state, rm)
        c == get_flag(m.state, "C")
        concrete == IsConst(n.out) /\ IsConst(m.out) /\ IsConst(c)
        sum == AddWithCarry(n.out.v, m.out.v, c.v)
        result == IF concrete
                  THEN Const(sum.result)
                  ELSE [k |-> "adc", lhs |-> n.out, rhs |-> m.out, carry |-> c]
        FlagOf(f, bit) ==
            IF concrete THEN Const(bit) ELSE [k |-> "flag", name |-> f, of |-> result]
        w == set_register(m.state, rd, result)
        fn == set_flag(w.state, "N",
                       FlagOf("N", IF Signed(sum.result) < 0 THEN 1 ELSE 0))
        fz == set_flag(fn, "Z", FlagOf("Z", IF sum.result = 0 THEN 1 ELSE 0))
        fc == set_flag(fz, "C", FlagOf("C", sum.carry))
        fv == set_flag(fc, "V", FlagOf("V", sum.overflow))
    IN  Executed(w.res, state, IF s /\ w.res = "Ok" THEN fv ELSE w.state,
                 rd = "PC", result)

(* The operations of B<cond> target on a guard the flags decide. *)
ConditionalJump(state, registers, taken, target) ==
    IF taken
    THEN LET w == set_register(registers, "PC", target)
         IN  Executed(w.res, set_has_jumped(state), w.state, TRUE, target)
    ELSE Executed("Ok", state, registers, FALSE, target)

(* The guard of a condition as the solver sees it. *)
GuardVar(flag) == IF flag = "C" THEN 1 ELSE 2
RECURSIVE GuardLiteral(_)
GuardLiteral(e) ==
    IF e.k = "not" THEN Not(GuardLiteral(e.v)) ELSE <<GuardVar(e.name), TRUE>>
RECURSIVE IsGuard(_)
IsGuard(e) ==
    CASE IsConst(e) -> TRUE
      [] e.k = "not" -> IsGuard(e.v)
      [] e.k = "unconstrained" -> e.name \in {"C", "V"}
      [] OTHER -> FALSE

(* The interpreter around the operations of one instruction: last_pc and   *)
(* has_jumped before them; after them the PC moves on by the size of the   *)
(* instruction unless it was written, and the instruction is counted.      *)
Begin(state, registers) ==
    reset_has_jumped([state EXCEPT !.last_pc = registers.pc])

Finish(x) ==
    IF x.res # "Ok"
    THEN x
    ELSE LET pc == get_register(x.registers, "PC")
             w == IF x.written
                  THEN RegWrite("Ok", x.registers)
                  ELSE set_register(pc.state, "PC",
                                    Add(pc.out, instruction_size \div BITS_IN_BYTE))
         IN  Executed(w.res,
                      increment_cycle_count(increment_instruction_count(x.state), 1),
                      w.state, x.written, x.expr)

ExecuteAdc(s, rd, rn, rm) ==
    LET x == Finish(Adc(Begin(cur, regs), regs, s, rd, rn, rm))
    IN  /\ RunFetching
        /\ cur.instruction_counter < MaxInstr
        /\ cur' = x.state
        /\ regs' = x.registers
        /\ rop' = LastWrite(rd, x.expr, x.res)
        /\ ev' = Ev(IF s THEN "adcs" ELSE "adc", NoLit)
        /\ UNCHANGED <<paths, driver, results, impl>>

ExecuteBranch(condition, target) ==
    LET g == get_expr(regs, condition)
        begun == Begin(cur, regs)
        lit == GuardLiteral(g)
        case == ForkCase(cur.constraints, lit)
        taken == IF IsConst(g) THEN g.v = 1 ELSE IsSatWith(cur.constraints, lit)
        forked == ~IsConst(g) /\ case = "fork_both"
        x == Finish(ConditionalJump(
                 IF forked THEN ForkContinue(begun, lit) ELSE begun,
                 regs, taken, target))
    IN  /\ RunFetching
        /\ cur.instruction_counter < MaxInstr
        /\ IsGuard(g)
        /\ cur' = x.state
        /\ regs' = x.registers
        /\ paths' = IF forked THEN ForkSave(paths, begun, lit) ELSE paths
        /\ rop' = [LastWrite("PC", target, x.res) EXCEPT !.kind = condition]
        /\ ev' = Ev(IF IsConst(g) THEN "branch" ELSE "branch_symbolic", NoLit)
        /\ UNCHANGED <<driver, results, impl>>

AluWords == {2, 3, 2 ^ (RegBits - 1), 2 ^ RegBits - 1}
FlagBits == {Const(0), Const(1)}
BranchConditions == {"CS", "CC", "VS", "VC", "EQ", "None"}
JumpTargets == {Const(2 ^ (RegBits - 1) + 2)}

(***************************************************************************)
(* IT blocks.  An IT instruction enqueues the conditions of its slots with *)
(* add_instruction_conditions; an instruction that follows takes the next  *)
(* one with get_next_instruction_condition_expression and runs its effect  *)
(* under that guard.  The queue is a private field of the state: these two *)
(* functions are all that change it.  A Continue hook a user installed at  *)
(* an address runs instead of the instruction there and returns to LR.     *)
(***************************************************************************)
MaxBlock == 2

add_instruction_conditions_PushFront(state, conditions) ==
    [state EXCEPT !.instruction_conditions = conditions \o @]

add_instruction_conditions(state, conditions) ==
    [state EXCEPT !.instruction_conditions = @ \o conditions]

get_in_conditional_block(state) == state.instruction_conditions # << >>

get_next_instruction_condition_expression(state, registers) ==
    IF state.instruction_conditions = << >>
    THEN [popped |-> FALSE, out |-> NoExpr, state |-> state]
    ELSE [popped |-> TRUE,
          out |-> get_expr(registers, Head(state.instruction_conditions)),
          state |-> [state EXCEPT !.instruction_conditions = Tail(@)]]

ItPcs == {ImageBase, PanicPc}
UserHookPcs == {EndCcPc}
ItConditions == {"EQ", "NE"}
RECURSIVE CondSeqs(_)
CondSeqs(n) ==
    IF n = 0
    THEN {<< >>}
    ELSE {Append(q, c) : q \in CondSeqs(n - 1), c \in ItConditions}
ItBlocks == UNION {CondSeqs(n) : n \in 1..MaxBlock}

ExecuteIt(conditions) ==
    LET begun == Begin(cur, regs)
        x == Finish(Executed("Ok", add_instruction_conditions(begun, conditions),
                             regs, FALSE, NoExpr))
    IN  /\ RunFetching
        /\ cur.instruction_counter < MaxInstr + MaxBlock
        /\ regs.pc \in ItPcs
        /\ cur' = x.state
        /\ regs' = x.registers
        /\ rop' = [NoRegOp EXCEPT !.kind = "it"]
        /\ ev' = Ev("it", conditions)
        /\ UNCHANGED <<paths, driver, results, impl>>

ExecuteSlot(flag, expr) ==
    LET begun == Begin(cur, regs)
        c == get_next_instruction_condition_expression(begun, regs)
        passed == ~c.popped \/ c.out = Const(1)
        x == Finish(Executed("Ok", c.state,
                             IF passed THEN set_flag(regs, flag, expr) ELSE regs,
                             FALSE, expr))
    IN  /\ RunFetching
        /\ cur.instruction_counter < MaxInstr + MaxBlock
        /\ regs.pc \notin ItPcs \cup UserHookPcs
        /\ cur' = x.state
        /\ regs' = x.registers
        /\ rop' = [NoRegOp EXCEPT
                      !.kind = IF c.popped
                               THEN Head(cur.instruction_conditions)
                               ELSE "None",
                      !.reg = flag, !.out = expr]
        /\ ev' = Ev("slot", NoLit)
        /\ UNCHANGED <<paths, driver, results, impl>>

UserHookContinue ==
    LET r == ReturnToCaller(regs)
    IN  /\ RunFetching
        /\ regs.pc \in UserHookPcs
        /\ StepOutcome(r.res, cur, r.state, "hook")
        /\ rop' = LastWrite("PC", r.expr, r.res)
        /\ UNCHANGED impl

(***************************************************************************)
(* The operation interpreter.  An instruction is a list of operations, run *)
(* in order over the state, its registers and flags, its memory and a map  *)
(* of locals.  A conditional jump on a guard that is no constant forks:    *)
(* a clone of the state, taken at that operation and holding the cursor    *)
(* (instruction, index, locals), is saved under the negated guard, and the *)
(* running state goes on under the guard.  An option is a sequence of at   *)
(* most one element.                                                       *)
(***************************************************************************)
CycleValue(v) == [kind |-> "Value", v |-> v]
CycleFunction(f) == [kind |-> "Function", v |-> f]

Instruction2(operations, max_cycle) ==
    [instruction_size |-> instruction_size, operations |-> operations,
     max_cycle |-> max_cycle]

ContinueInsideInstruction2_Restarts(instruction, index, local) ==
    [instruction |-> instruction, index |-> 1, local |-> local]

ContinueInsideInstruction2(instruction, index, local) ==
    [instruction |-> instruction, index |-> index, local |-> local]

LocalNames == {"t"}
NoLocals == [n \in LocalNames |-> NoExpr]

Operation(op, dst, src, imm, at) ==
    [op |-> op, dst |-> dst, src |-> src, imm |-> imm, at |-> at]

(* The cycle functions of the architecture: a branch costs more if taken. *)
CallCycleFunction(f, state) == IF state.has_jumped THEN 2 ELSE 1

CyclesOf_BeforeExecution(state) ==
    IF state.last_instruction = << >>
    THEN 0
    ELSE LET c == state.last_instruction[1].max_cycle
         IN  IF c.kind = "Value"
             THEN c.v
             ELSE CallCycleFunction(c.v, reset_has_jumped(state))

CyclesOf(state) ==
    IF state.last_instruction = << >>
    THEN 0
    ELSE LET c == state.last_instruction[1].max_cycle
         IN  IF c.kind = "Value" THEN c.v ELSE CallCycleFunction(c.v, state)

set_last_instruction(state, instruction) ==
    [state EXCEPT !.last_instruction = <<instruction>>]

(* #[derive(Clone)] of the state: every field is copied. *)
Clone_FreshMemory(state, registers, memory) ==
    [state |-> state, memory |-> registers, ram |-> ArrayMemory_new]

Clone(state, registers, memory) ==
    [state |-> state, memory |-> registers, ram |-> memory]

Interpreted(res, state, registers, memory, local, saved, written, log) ==
    [res |-> res, state |-> state, registers |-> registers, ram |-> memory,
     local |-> local, saved |-> saved, written |-> written, log |-> log]

fork(x, instruction, index, lit) ==
    Path(Clone([x.state EXCEPT !.continue_in_instruction =
                   <<ContinueInsideInstruction2(instruction, index, x.local)>>],
               x.registers, x.ram),
         {Not(lit)})

ExecuteConditionalJump(x, instruction, index, o) ==
    LET g == get_expr(x.registers, o.src)
        lit == GuardLiteral(g)
        case == ForkCase(x.state.constraints, lit)
        forked == ~IsConst(g) /\ case = "fork_both"
        taken == IF IsConst(g) THEN g.v = 1
                 ELSE IsSatWith(x.state.constraints, lit)
        j == ConditionalJump(
                 IF forked THEN ForkContinue(x.state, lit) ELSE x.state,
                 x.registers, taken, Const(o.imm))
    IN  IF ~IsConst(g) /\ case = "fork_none"
        THEN [x EXCEPT !.res = "AssumptionUnsat"]
        ELSE [x EXCEPT !.res = j.res, !.state = j.state,
                       !.registers = j.registers,
                       !.written = @ \/ j.written,
                       !.saved = IF forked
                                 THEN Append(@, fork(x, instruction, index, lit))
                                 ELSE @]

execute_operation(x, instruction, index) ==
    LET o == instruction.operations[index]
    IN  CASE o.op = "move" ->
               LET w == set_register(x.registers, o.dst, Const(o.imm))
               IN  [x EXCEPT !.res = w.res, !.registers = w.state,
                             !.written = @ \/ o.dst = "PC"]
          [] o.op = "local" ->
               [x EXCEPT !.local[o.dst] = Const(o.imm)]
          [] o.op = "move_local" ->
               LET w == set_register(x.registers, o.dst, x.local[o.src])
               IN  [x EXCEPT !.res = w.res, !.registers = w.state,
                             !.written = @ \/ o.dst = "PC"]
          [] o.op = "set_flag" ->
               [x EXCEPT !.registers = set_flag(@, o.dst, Const(o.imm))]
          [] o.op = "store" ->
               LET w == BoolectorMemory_set(x.ram, "Little", o.at, ByteBits(o.imm))
               IN  [x EXCEPT !.res = w.res, !.ram = w.ram]
          [] o.op = "it" ->
               [x EXCEPT !.state = add_instruction_conditions(@, <<o.src>>)]
          [] OTHER -> ExecuteConditionalJump(x, instruction, index, o)

RECURSIVE RunOperations(_, _, _, _)
RunOperations(x, instruction, index, last) ==
    IF index > last \/ x.res # "Ok"
    THEN x
    ELSE RunOperations(
             [execute_operation(x, instruction, index) EXCEPT
                 !.log = Append(x.log, index)],
             instruction, index + 1, last)

(* Steps 4 and 5 after the last operation. *)
FinishInstruction(x, instruction) ==
    IF x.res # "Ok"
    THEN x
    ELSE LET pc == get_register(x.registers, "PC")
             w == IF x.written
                  THEN RegWrite("Ok", x.registers)
                  ELSE set_register(pc.state, "PC",
                           Add(pc.out, instruction.instruction_size \div BITS_IN_BYTE))
             counted == increment_instruction_count(
                            set_last_instruction(x.state, instruction))
         IN  [x EXCEPT !.res = w.res, !.registers = w.state,
                       !.state = increment_cycle_count(counted, CyclesOf(counted))]

InstructionOutcome(x, op) ==
    /\ ram' = x.ram
    /\ rop' = [NoRegOp EXCEPT !.kind = op, !.res = x.res, !.out = x.log]
    /\ IF x.res = "Ok"
       THEN /\ cur' = x.state
            /\ regs' = x.registers
            /\ paths' = paths \o x.saved
            /\ ev' = Ev(op, NoLit)
            /\ UNCHANGED <<driver, results>>
       ELSE /\ regs' = x.registers
            /\ results' = Record(results, x.res, x.state)
            /\ cur' = NoState
            /\ paths' = paths \o x.saved
            /\ driver' = "idle"
            /\ ev' = Ev(op, NoLit)

(* execute_instruction on a state that is not inside an instruction. *)
ExecuteInstruction(instruction) ==
    LET begun == [Begin(cur, regs) EXCEPT
                     !.current_instruction = <<instruction>>]
        x == RunOperations(
                 Interpreted("Ok", begun, regs, ram, NoLocals, << >>, FALSE, << >>),
                 instruction, 1, Len(instruction.operations))
    IN  /\ RunFetching
        /\ cur.continue_in_instruction = << >>
        /\ cur.instruction_counter < MaxInstr
        /\ InstructionOutcome(FinishInstruction(x, instruction), "instruction")
        /\ UNCHANGED <<impl, endianness, nwrites, mop>>

(* execute_instruction on a state a fork saved inside an instruction. *)
ContinueInstruction ==
    LET c == cur.continue_in_instruction[1]
        begun == [cur EXCEPT !.continue_in_instruction = << >>,
                             !.last_pc = regs.pc,
                             !.current_instruction = <<c.instruction>>]
        x == RunOperations(
                 Interpreted("Ok", begun, regs, ram, c.local, << >>, FALSE, << >>),
                 c.instruction, c.index, Len(c.instruction.operations))
    IN  /\ RunFetching
        /\ cur.continue_in_instruction # << >>
        /\ InstructionOutcome(FinishInstruction(x, c.instruction), "continue")
        /\ UNCHANGED <<impl, endianness, nwrites, mop>>

(* VM::run: the executor is built from the state of the popped path. *)
RunPath ==
    LET path == TopPath(paths)
    IN  /\ driver \in {"idle", "exec"}
        /\ driver = "exec" => ~cur.live \/ cur.instruction_counter >= MaxInstr
        /\ Len(paths) > 0
        /\ cur' = AssertAll(path.state.state, path.constraints)
        /\ regs' = path.state.memory
        /\ ram' = path.state.ram
        /\ paths' = PopPath(paths)
        /\ driver' = "exec"
        /\ rop' = NoRegOp
        /\ ev' = Ev("run", NoLit)
        /\ UNCHANGED <<results, impl, endianness, nwrites, mop>>

JumpTarget == 2 ^ (RegBits - 1) + 2
StoreAt == StackStart + 1
Branching ==
    Instruction2(<<Operation("local", "t", "", 5, 0),
                   Operation("jump", "PC", "CS", JumpTarget, 0),
                   Operation("move_local", "R1", "t", 0, 0),
                   Operation("set_flag", "Z", "", 1, 0),
                   Operation("store", "", "", 7, StoreAt),
                   Operation("it", "", "EQ", 0, 0)>>,
                 CycleFunction("branch"))
Storing ==
    Instruction2(<<Operation("move", "R1", "", 3, 0),
                   Operation("store", "", "", 9, StoreAt),
                   Operation("jump", "PC", "VS", JumpTarget, 0),
                   Operation("set_flag", "N", "", 1, 0)>>,
                 CycleValue(2))
Program == {Branching, Storing}

(***************************************************************************)
(* PUSH and POP of a register list, as the tests test_push and test_pop    *)
(* pin them: PUSH stores the registers at ascending addresses below SP and *)
(* moves SP down by a word per register; POP loads them from SP upwards,   *)
(* moves SP up, and a word loaded into PC loses its bit 0.  The registers  *)
(* of the model are stored as words of two bytes.                          *)
(***************************************************************************)
StackWord == 2 * BITS_IN_BYTE
WordBytes == StackWord \div BITS_IN_BYTE
StackRegs == {"R4", "R5", "R7", "LR", "SP", "PC"}
PushList == <<"R4", "R5", "R7", "LR">>
PopList == <<"R4", "R5", "R7", "PC">>

BitsOf(n, width) == [j \in 1..width |-> Bit(n, j - 1)]
RECURSIVE NumberOf(_)
NumberOf(v) == IF v = << >> THEN 0 ELSE Head(v) + 2 * NumberOf(Tail(v))
AsWord(e) == BitsOf(e.v, StackWord)
AsExpr(v) ==
    IF IsConstant(v)
    THEN Const(NumberOf(v) % (2 ^ RegBits))
    ELSE [k |-> "bits", v |-> v]

Stacked(res, registers, memory) ==
    [res |-> res, registers |-> registers, ram |-> memory]

RECURSIVE StoreEach(_, _, _, _, _, _)
StoreEach(x, endian, list, i, address, step) ==
    IF i > Len(list) \/ x.res # "Ok"
    THEN x
    ELSE LET r == get_register(x.registers, list[i])
             w == write_word_to_memory(x.ram, endian, address, AsWord(r.out))
         IN  StoreEach(Stacked(w.res, r.state, w.ram), endian, list, i + 1,
                       address + step, step)

Push_Descending(registers, memory, endian, list) ==
    LET sp == get_register(registers, "SP")
        n == Len(list) * WordBytes
        x == StoreEach(Stacked("Ok", sp.state, memory), endian, list, 1,
                       sp.out.v - WordBytes, 0 - WordBytes)
        w == set_register(x.registers, "SP", Const(sp.out.v - n))
    IN  IF x.res # "Ok" THEN x ELSE Stacked(w.res, w.state, x.ram)

Push(registers, memory, endian, list) ==
    LET sp == get_register(registers, "SP")
        n == Len(list) * WordBytes
        x == StoreEach(Stacked("Ok", sp.state, memory), endian, list, 1,
                       sp.out.v - n, WordBytes)
        w == set_register(x.registers, "SP", Const(sp.out.v - n))
    IN  IF x.res # "Ok" THEN x ELSE Stacked(w.res, w.state, x.ram)

RECURSIVE LoadEach(_, _, _, _, _)
LoadEach(x, endian, list, i, address) ==
    IF i > Len(list) \/ x.res # "Ok"
    THEN x
    ELSE LET m == BoolectorMemory_get(x.ram, endian, address, StackWord)
             e == AsExpr(m.out)
             w == set_register(x.registers, list[i],
                      IF list[i] = "PC" /\ IsConst(e)
                      THEN Const(ClearBit0(e.v))
                      ELSE e)
         IN  IF m.res # "Ok"
             THEN Stacked(m.res, x.registers, x.ram)
             ELSE LoadEach(Stacked(w.res, w.state, x.ram), endian, list, i + 1,
                           address + WordBytes)

Pop(registers, memory, endian, list) ==
    LET sp == get_register(registers, "SP")
        n == Len(list) * WordBytes
        x == LoadEach(Stacked("Ok", sp.state, memory), endian, list, 1, sp.out.v)
        w == set_register(x.registers, "SP", Const(sp.out.v + n))
    IN  IF x.res # "Ok" THEN x ELSE Stacked(w.res, w.state, x.ram)

ExecutePush ==
    LET p == Push(regs, ram, endianness, PushList)
        x == Finish(Executed(p.res, Begin(cur, regs), p.registers, FALSE, NoExpr))
    IN  /\ RunFetching
        /\ cur.instruction_counter = 0
        /\ cur' = x.state
        /\ regs' = x.registers
        /\ ram' = p.ram
        /\ rop' = [NoRegOp EXCEPT !.kind = "push", !.res = x.res,
                                  !.last = regs.register_file]
        /\ ev' = Ev("push", NoLit)
        /\ UNCHANGED <<paths, driver, results, impl, endianness, nwrites, mop>>

(* initiate!: the test writes a register between two instructions. *)
InitiateRegister(register, value) ==
    LET w == set_register(regs, register, Const(value))
    IN  /\ RunFetching
        /\ cur.instruction_counter = 1
        /\ regs' = w.state
        /\ ev' = Ev("initiate", NoLit)
        /\ UNCHANGED <<cur, paths, driver, results, impl, rop, mvars>>

ExecutePop ==
    LET p == Pop(regs, ram, endianness, PopList)
        x == Finish(Executed(p.res, Begin(cur, regs), p.registers,
                             "PC" \in {PopList[i] : i \in 1..Len(PopList)},
                             NoExpr))
    IN  /\ RunFetching
        /\ cur.instruction_counter = 1
        /\ cur' = x.state
        /\ regs' = x.registers
        /\ ram' = p.ram
        /\ rop' = [rop EXCEPT !.kind = "pop", !.res = x.res]
        /\ ev' = Ev("pop", NoLit)
        /\ UNCHANGED <<paths, driver, results, impl, endianness, nwrites, mop>>

StackTop == AddrSpace
StackWords == {17, 18, 19}

(***************************************************************************)
(* Initial states and specifications.  Spec is the path driver, SpecMem    *)
(* the memory of one path, SpecReg the register file of one path, SpecRun  *)
(* a whole run from its start and SpecDfs the path store under forks; each *)
(* leaves the variables of the others alone.                               *)
(***************************************************************************)
DriverIdle ==
    /\ paths = << >>
    /\ cur = NoState
    /\ driver = "idle"
    /\ results = << >>
    /\ ev = Ev("step", NoLit)

MemIdle ==
    /\ ram = ArrayMemory_new
    /\ endianness = "Little"
    /\ nwrites = 0
    /\ mop = NoMemOp

RegIdle ==
    /\ impl = "GAState2"
    /\ regs = BoolectorMemory_new
    /\ rop = NoRegOp

RunIdle == run = NoRun

InstallIdle ==
    /\ symbols = FnNames
    /\ installed = Installed("none", Outcome("Ok", NoPattern, HookContainer_new), 0)
    /\ probe = NoProbe

Init ==
    /\ paths = save_path(<< >>, Path(NewState(EntryPc, EndPcAddr), {}))
    /\ cur = NoState
    /\ driver = "idle"
    /\ results = << >>
    /\ ev = Ev("step", NoLit)
    /\ MemIdle
    /\ RegIdle
    /\ RunIdle
    /\ InstallIdle

Next ==
    \/ VMRunPop /\ UNCHANGED <<mvars, rvars, uvars, hvars>>
    \/ VMRunNone /\ UNCHANGED <<mvars, rvars, uvars, hvars>>
    \/ \E c \in CycleValues, t \in CodeAddrs, l \in LrValues :
          ExecInstruction(c, t, l) /\ UNCHANGED <<mvars, rvars, uvars, hvars>>
    \/ PcHookEnds /\ UNCHANGED <<mvars, rvars, uvars, hvars>>
    \/ PcHookIntrinsic /\ UNCHANGED <<mvars, rvars, uvars, hvars>>
    \/ \E g \in Literals : HookAssert(g) /\ UNCHANGED <<mvars, rvars, uvars, hvars>>
    \/ \E g \in Literals : Fork(g) /\ UNCHANGED <<mvars, rvars, uvars, hvars>>
    \/ ErrorAsFailure /\ UNCHANGED <<mvars, rvars, uvars, hvars>>
    \/ ErrorPropagates /\ UNCHANGED <<mvars, rvars, uvars, hvars>>

Spec == Init /\ [][Next]_vars

InitMem ==
    /\ ram = ArrayMemory_new
    /\ endianness \in {"Little", "Big"}
    /\ nwrites = 0
    /\ mop = NoMemOp
    /\ DriverIdle
    /\ RegIdle
    /\ RunIdle
    /\ InstallIdle

NextMem ==
    \/ \E a \in AccessAddrs, v \in Values :
          WriteWordToMemory(a, v) /\ UNCHANGED <<dvars, rvars, uvars, hvars>>
    \/ \E a \in AccessAddrs, v \in Values :
          WriterWriteMemory(a, v) /\ UNCHANGED <<dvars, rvars, uvars, hvars>>
    \/ \E a \in AccessAddrs, v \in Values :
          MemorySet(a, v) /\ UNCHANGED <<dvars, rvars, uvars, hvars>>
    \/ \E a \in AccessAddrs :
          ReadWordFromMemory(a) /\ UNCHANGED <<dvars, rvars, uvars, hvars>>
    \/ \E a \in AccessAddrs, w \in Widths :
          ReaderReadMemory(a, w) /\ UNCHANGED <<dvars, rvars, uvars, hvars>>
    \/ \E a \in AccessAddrs, w \in Widths :
          MemoryGet(a, w) /\ UNCHANGED <<dvars, rvars, uvars, hvars>>

SpecMem == InitMem /\ [][NextMem]_vars

(* The hook layer alone: reads and writes through Reader and Writer at     *)
(* addresses with a single hook, with range hooks, with both and with none *)
HookAddrs ==
    {PeripheralAddr - 2, PeripheralAddr - 1, PeripheralAddr,
     PeripheralAddr + 1, StaticHi + 1}

NextHook ==
    \/ \E a \in HookAddrs, v \in Values :
          WriterWriteMemory(a, v) /\ UNCHANGED <<dvars, rvars, uvars, hvars>>
    \/ \E a \in HookAddrs, w \in Widths :
          ReaderReadMemory(a, w) /\ UNCHANGED <<dvars, rvars, uvars, hvars>>
    \/ \E a \in HookAddrs, v \in Values :
          WriterWriteSymbolic(a, v) /\ UNCHANGED <<dvars, rvars, uvars, hvars>>
    \/ \E a \in HookAddrs, w \in Widths :
          ReaderReadSymbolic(a, w) /\ UNCHANGED <<dvars, rvars, uvars, hvars>>

SpecHook == InitMem /\ [][NextHook]_vars

InitReg ==
    /\ impl \in {"GAState2", "GAState"}
    /\ regs = IF impl = "GAState2"
              THEN BoolectorMemory_new
              ELSE GAState_new(NoRun, EndPcAddr).registers
    /\ rop = NoRegOp
    /\ DriverIdle
    /\ MemIdle
    /\ RunIdle
    /\ InstallIdle

NextReg ==
    \/ \E r \in RegNames : GetRegister(r) /\ UNCHANGED <<dvars, mvars, uvars, hvars>>
    \/ \E r \in RegNames, e \in RegValues :
          SetRegister(r, e) /\ UNCHANGED <<dvars, mvars, uvars, hvars>>

SpecReg == InitReg /\ [][NextReg]_vars

(* A whole run, from the driver's entry point to its return: the start,   *)
(* the pops of VM::run and the interpreter's steps on the running path.    *)
InitRun ==
    /\ impl \in {"GAState2", "GAState"}
    /\ regs = BoolectorMemory_new
    /\ rop = NoRegOp
    /\ run \in {Elf(s, e, k) : s \in BOOLEAN, e \in BOOLEAN, k \in BOOLEAN}
    /\ paths = << >>
    /\ cur = NoState
    /\ driver = "new"
    /\ results = << >>
    /\ ev = Ev("step", NoLit)
    /\ MemIdle
    /\ InstallIdle

NextRun ==
    \/ ArbiterRun /\ UNCHANGED <<mvars, hvars>>
    \/ VMRunPop /\ UNCHANGED <<mvars, rvars, uvars, hvars>>
    \/ VMRunNone /\ UNCHANGED <<mvars, rvars, uvars, hvars>>
    \/ StepHookEnds /\ UNCHANGED <<mvars, hvars>>
    \/ StepHookContinue /\ UNCHANGED <<mvars, hvars>>
    \/ StepHookIntrinsic /\ UNCHANGED <<mvars, hvars>>
    \/ \E t \in BranchTargets : StepBranch(t) /\ UNCHANGED <<mvars, hvars>>
    \/ \E r \in BranchRegisters : StepBranchRegister(r) /\ UNCHANGED <<mvars, hvars>>
    \/ \E r \in MoveRegisters, e \in Operands :
          StepMove(r, e) /\ UNCHANGED <<mvars, hvars>>
    \/ StepDecodeError /\ UNCHANGED <<mvars, hvars>>
    \/ StepCapReached /\ UNCHANGED <<mvars, hvars>>

SpecRun == InitRun /\ [][NextRun]_vars

(* The path store under forks: runs whose guards mention NumForkVars       *)
(* inputs, so that several siblings wait in the store at once, and whose   *)
(* instructions only branch to a terminal hook.  The fair specification    *)
(* adds what the code's loops guarantee: the driver's loop calls VM::run   *)
(* again after every result, the interpreter executes the next instruction *)
(* and a hook or an error at the PC is acted on.                           *)
DfsTargets == {PanicPc, EndPcAddr}

NextDfs ==
    \/ VMRunPop /\ UNCHANGED <<mvars, rvars, uvars, hvars>>
    \/ VMRunNone /\ UNCHANGED <<mvars, rvars, uvars, hvars>>
    \/ \E t \in DfsTargets :
          ExecInstruction(0, t, Const(EndPcAddr)) /\ UNCHANGED <<mvars, rvars, uvars, hvars>>
    \/ PcHookEnds /\ UNCHANGED <<mvars, rvars, uvars, hvars>>
    \/ \E g \in ForkLiterals : Fork(g) /\ UNCHANGED <<mvars, rvars, uvars, hvars>>
    \/ ErrorAsFailure /\ UNCHANGED <<mvars, rvars, uvars, hvars>>
    \/ ErrorPropagates /\ UNCHANGED <<mvars, rvars, uvars, hvars>>

SpecDfs == Init /\ [][NextDfs]_vars

FairSpecDfs ==
    /\ SpecDfs
    /\ WF_vars(VMRunPop /\ UNCHANGED <<mvars, rvars, uvars, hvars>>)
    /\ WF_vars(VMRunNone /\ UNCHANGED <<mvars, rvars, uvars, hvars>>)
    /\ WF_vars(\E t \in DfsTargets :
                  ExecInstruction(0, t, Const(EndPcAddr))
                      /\ UNCHANGED <<mvars, rvars, uvars, hvars>>)
    /\ WF_vars(PcHookEnds /\ UNCHANGED <<mvars, rvars, uvars, hvars>>)
    /\ WF_vars((ErrorAsFailure \/ ErrorPropagates)
                  /\ UNCHANGED <<mvars, rvars, uvars, hvars>>)

(***************************************************************************)
(* Installing hooks by name: the ELF lacks at most MaxMissing of the names *)
(* the model knows, the defaults are installed, the user adds hooks by     *)
(* pattern, and paths reach the subprograms.                               *)
(***************************************************************************)
InitInstall ==
    /\ impl \in {"GAState2", "GAState"}
    /\ regs = BoolectorMemory_new
    /\ rop = NoRegOp
    /\ symbols \in {FnNames \ missing :
                       missing \in {m \in SUBSET FnNames : Cardinality(m) <= MaxMissing}}
    /\ installed = Installed("none", Outcome("Ok", NoPattern, HookContainer_new), 0)
    /\ probe = NoProbe
    /\ DriverIdle
    /\ MemIdle
    /\ RunIdle

NextInstall ==
    \/ InstallDefault /\ UNCHANGED <<dvars, mvars, rvars, uvars>>
    \/ \E p \in HookPatterns, h \in HookChoices :
          AddPcHookRegex(p, h) /\ UNCHANGED <<dvars, mvars, rvars, uvars>>
    \/ \E n \in FnNames : ReachSubprogram(n) /\ UNCHANGED <<dvars, mvars, rvars, uvars>>

SpecInstall == InitInstall /\ [][NextInstall]_vars

(***************************************************************************)
(* A path that has called symbolic_size<T>: R0 holds the pointer, R1 the   *)
(* size (or was never written), LR the return address, which may be the    *)
(* intrinsic itself.  The program writes to and reads from the memory      *)
(* around the pointer before and after the intrinsic runs.                 *)
(***************************************************************************)
InitSym ==
    /\ impl = "GAState2"
    /\ \E p \in SymPointers, n \in SymSizes, lr \in SymReturns :
          regs = [BoolectorMemory_new EXCEPT
                    !.register_file["R0"] = Const(p),
                    !.register_file["R1"] = n,
                    !.register_file["LR"] = Const(lr),
                    !.pc = SymbolicSizePc]
    /\ rop = NoRegOp
    /\ ram = ArrayMemory_new
    /\ endianness \in {"Little", "Big"}
    /\ nwrites = 0
    /\ mop = NoMemOp
    /\ paths = << >>
    /\ cur = FirstState(0)
    /\ driver = "exec"
    /\ results = << >>
    /\ ev = Ev("step", NoLit)
    /\ RunIdle
    /\ InstallIdle

NextSym ==
    \/ StepSymbolicSized /\ UNCHANGED hvars
    \/ \E a \in SymPointers :
          MemorySet(a, Word(BITS_IN_BYTE)) /\ UNCHANGED <<dvars, rvars, uvars, hvars>>
    \/ \E a \in SymPointers, w \in SymWidths :
          MemoryGet(a, w) /\ UNCHANGED <<dvars, rvars, uvars, hvars>>

SpecSym == InitSym /\ [][NextSym]_vars

(* One test of the ARMv7-M instructions: the test state with the registers *)
(* and flags the test sets, then instructions executed one after another.  *)
Initiated(r1, r2, c, v, z) ==
    LET t == create_test_state(0, 2 ^ RegBits - 1).registers
    IN  [t EXCEPT !.register_file["R1"] = Const(r1),
                  !.register_file["R2"] = Const(r2),
                  !.flags["C"] = c, !.flags["V"] = v, !.flags["Z"] = z]

InitInstr ==
    /\ impl = "GAState"
    /\ regs \in {Initiated(r1, r2, c, v, z) :
                    r1 \in AluWords, r2 \in AluWords,
                    c \in FlagBits \cup {Unconstrained("C", 0)},
                    v \in FlagBits \cup {Unconstrained("V", 0)},
                    z \in FlagBits}
    /\ rop = NoRegOp
    /\ paths = << >>
    /\ cur = create_test_state(0, 2 ^ RegBits - 1).state
    /\ driver = "exec"
    /\ results = << >>
    /\ ev = Ev("step", NoLit)
    /\ MemIdle
    /\ RunIdle
    /\ InstallIdle

NextInstr ==
    \/ \E s \in BOOLEAN :
          ExecuteAdc(s, "R1", "R1", "R2") /\ UNCHANGED <<mvars, uvars, hvars>>
    \/ \E c \in BranchConditions, t \in JumpTargets :
          ExecuteBranch(c, t) /\ UNCHANGED <<mvars, uvars, hvars>>

SpecInstr == InitInstr /\ [][NextInstr]_vars

(* The conditions of the ARM instructions evaluated over the flags of a    *)
(* test state, between writes of the flags.                                *)
Conditions ==
    {"EQ", "NE", "CS", "CC", "MI", "PL", "VS", "VC", "HI", "LS", "GE", "LT",
     "GT", "LE", "None"}

GetExpr(condition) ==
    /\ rop' = [NoRegOp EXCEPT !.kind = condition, !.out = get_expr(regs, condition)]
    /\ UNCHANGED <<impl, regs>>

SetFlag(flag, expr) ==
    /\ regs' = set_flag(regs, flag, expr)
    /\ rop' = [NoRegOp EXCEPT !.kind = "set_flag", !.out = expr]
    /\ UNCHANGED impl

InitCond ==
    /\ impl = "GAState"
    /\ regs = create_test_state(0, 2 ^ RegBits - 1).registers
    /\ rop = NoRegOp
    /\ DriverIdle
    /\ MemIdle
    /\ RunIdle
    /\ InstallIdle

NextCond ==
    \/ \E c \in Conditions :
          GetExpr(c) /\ UNCHANGED <<dvars, mvars, uvars, hvars>>
    \/ \E f \in FlagNames, e \in FlagBits :
          SetFlag(f, e) /\ UNCHANGED <<dvars, mvars, uvars, hvars>>

SpecCond == InitCond /\ [][NextCond]_vars

(* Decoding at the PC: ArmV6M::translate hands the bytes to the decoder    *)
(* and maps its error; a path moves its PC between decodings.              *)
DecoderErrors ==
    {"InsufficientInput", "Malfromed32BitInstruction", "Invalid32BitInstruction",
     "InvalidOpCode", "Unpredictable", "InvalidRegister", "InvalidCondition"}

map_err(err) ==
    CASE err = "InsufficientInput" -> "InvalidRegister"
      [] err = "Malfromed32BitInstruction" -> "MalfromedInstruction"
      [] err = "Invalid32BitInstruction" -> "InvalidInstruction"
      [] err = "InvalidOpCode" -> "InvalidInstruction"
      [] err = "Unpredictable" -> "Unpredictable"
      [] err = "InvalidRegister" -> "InvalidRegister"
      [] OTHER -> "InvalidCondition"

translate(parsed) == IF parsed = "Ok" THEN "Ok" ELSE map_err(parsed)

Translate(parsed) ==
    /\ rop.res = "Ok"
    /\ get_next_instruction(regs).kind = "Instruction"
    /\ rop' = [rop EXCEPT !.kind = parsed, !.reg = "PC", !.res = translate(parsed)]
    /\ UNCHANGED <<impl, regs>>

InitDecode ==
    /\ impl \in {"GAState2", "GAState"}
    /\ regs = IF impl = "GAState2"
              THEN BoolectorMemory_new
              ELSE GAState_new(NoRun, EndPcAddr).registers
    /\ rop = NoRegOp
    /\ DriverIdle
    /\ MemIdle
    /\ RunIdle
    /\ InstallIdle

NextDecode ==
    \/ \E parsed \in DecoderErrors \cup {"Ok"} :
          Translate(parsed) /\ UNCHANGED <<dvars, mvars, uvars, hvars>>
    \/ \E t \in BranchTargets :
          SetRegister("PC", Const(t)) /\ UNCHANGED <<dvars, mvars, uvars, hvars>>

SpecDecode == InitDecode /\ [][NextDecode]_vars

(* A path in a program with two IT blocks, the second where a hook in the  *)
(* first returns to.                                                       *)
InitIt ==
    /\ impl = "GAState2"
    /\ regs \in {[BoolectorMemory_new EXCEPT
                      !.register_file["LR"] = Const(PanicPc),
                      !.flags = [f \in FlagNames |->
                                    IF f = "Z" THEN z ELSE IF f = "C" THEN c
                                    ELSE Const(0)],
                      !.pc = pc] :
                  z \in FlagBits, c \in FlagBits, pc \in ItPcs}
    /\ rop = NoRegOp
    /\ paths = << >>
    /\ cur = FirstState(regs.pc)
    /\ driver = "exec"
    /\ results = << >>
    /\ ev = Ev("step", NoLit)
    /\ MemIdle
    /\ RunIdle
    /\ InstallIdle

NextIt ==
    \/ \E conditions \in ItBlocks :
          ExecuteIt(conditions) /\ UNCHANGED <<mvars, uvars, hvars>>
    \/ \E f \in {"Z", "C"}, e \in FlagBits :
          ExecuteSlot(f, e) /\ UNCHANGED <<mvars, uvars, hvars>>
    \/ UserHookContinue /\ UNCHANGED <<mvars, uvars, hvars>>

SpecIt == InitIt /\ [][NextIt]_vars

(* Paths of a program of instructions that fork on the C and V flags. *)
InitOps ==
    /\ impl = "GAState2"
    /\ regs \in {[BoolectorMemory_new EXCEPT
                      !.register_file["R1"] = Const(1),
                      !.flags = [f \in FlagNames |->
                                    IF f = "C" THEN c ELSE IF f = "V" THEN v
                                    ELSE Const(0)]] :
                  c \in {Const(0), Const(1), Unconstrained("C", 0)},
                  v \in {Const(0), Unconstrained("V", 0)}}
    /\ rop = NoRegOp
    /\ paths = << >>
    /\ cur \in {[FirstState(0) EXCEPT !.count_cycles = b] : b \in BOOLEAN}
    /\ driver = "exec"
    /\ results = << >>
    /\ ev = Ev("step", NoLit)
    /\ MemIdle
    /\ RunIdle
    /\ InstallIdle

NextOps ==
    \/ \E i \in Program : ExecuteInstruction(i) /\ UNCHANGED <<uvars, hvars>>
    \/ ContinueInstruction /\ UNCHANGED <<uvars, hvars>>
    \/ RunPath /\ UNCHANGED <<uvars, hvars>>

SpecOps == InitOps /\ [][NextOps]_vars

(* The test state of test_push, then PUSH, register writes and POP. *)
InitStack ==
    /\ impl = "GAState"
    /\ regs \in {RegState([r \in StackRegs |->
                              CASE r = "R4" -> Const(r4)
                                [] r = "R5" -> Const(r5)
                                [] r = "R7" -> Const(r7)
                                [] r = "LR" -> Const(lr)
                                [] r = "SP" -> Const(StackTop)
                                [] OTHER -> Const(0)],
                          [f \in FlagNames |-> Const(0)], 0, 0) :
                  r4 \in StackWords, r5 \in StackWords, r7 \in StackWords,
                  lr \in StackWords}
    /\ rop = NoRegOp
    /\ paths = << >>
    /\ cur = FirstState(0)
    /\ driver = "exec"
    /\ results = << >>
    /\ ev = Ev("step", NoLit)
    /\ ram = ArrayMemory_new
    /\ endianness \in {"Little", "Big"}
    /\ nwrites = 0
    /\ mop = NoMemOp
    /\ RunIdle
    /\ InstallIdle

NextStack ==
    \/ ExecutePush /\ UNCHANGED <<uvars, hvars>>
    \/ \E r \in {"R4", "R7"} :
          InitiateRegister(r, 0) /\ UNCHANGED <<uvars, hvars>>
    \/ ExecutePop /\ UNCHANGED <<uvars, hvars>>

SpecStack == InitStack /\ [][NextStack]_vars

(***************************************************************************)
(* Properties of the driver.                                               *)
(***************************************************************************)
Running == driver = "exec" /\ cur.live
SamePathStep == Running /\ cur'.live
Seen(r) == \E i \in 1..Len(results) : results[i] = r

C2_ForkPartition ==
    [][ev'.op = "fork_both" =>
         LET g == ev'.g
             C == cur.constraints
             sib == AssertAll(TopPath(paths').state, TopPath(paths').constraints)
         IN  /\ cur'.constraints = C \cup {g}
             /\ sib.constraints = C \cup {Not(g)}
             /\ Models(cur'.constraints) \cap Models(sib.constraints) = {}
             /\ Models(cur'.constraints) \cup Models(sib.constraints) = Models(C)
      ]_vars

C2_Witness ==
    /\ ev.op = "fork_both" /\ Running /\ Len(paths) > 0
    /\ Models(cur.constraints) # {}
    /\ Models(AssertAll(TopPath(paths).state, TopPath(paths).constraints).constraints) # {}

(* C3: constraint monotonicity. Every step of a running path keeps all the *)
(* constraints it had; a saved path keeps its state and extra constraints  *)
(* while it waits in the store; a popped path starts with the constraints  *)
(* of its saved state and the extra constraints saved with it.             *)
C3_ConstraintMonotone ==
    [][/\ SamePathStep => cur.constraints \subseteq cur'.constraints
       /\ \A i \in 1..Len(paths) : i <= Len(paths') => paths'[i] = paths[i]
       /\ Len(paths') > Len(paths) =>
            TopPath(paths').state.constraints = cur.constraints
       /\ (driver = "idle" /\ driver' = "exec") =>
            /\ TopPath(paths).state.constraints \subseteq cur'.constraints
            /\ TopPath(paths).constraints \subseteq cur'.constraints
      ]_vars

(* A popped sibling runs with the constraints its parent had at the fork   *)
(* and the guard saved with it.                                            *)
C3_Witness ==
    Running /\ Len(results) > 0 /\ Cardinality(cur.constraints) > 0

(* C4: cycle monotonicity as claimed: no step of a running path lowers     *)
(* cycle_count.                                                            *)
C4_CycleMonotone ==
    [][SamePathStep => cur'.cycle_count >= cur.cycle_count]_vars

(* C4 amended: a step of a running path lowers cycle_count only when it is *)
(* the start_cyclecount intrinsic, which resets it to 0; an executed       *)
(* instruction never lowers it.                                            *)
C4_CycleMonotoneExceptReset ==
    [][SamePathStep =>
         \/ cur'.cycle_count >= cur.cycle_count
         \/ /\ get_pc_hooks(cur.pc) = "start_cyclecount"
            /\ cur'.cycle_count = 0
      ]_vars

C4_Witness ==
    Running /\ cur.instruction_counter > 1 /\ cur.cycle_count > 0

(* C25: cycle-count intrinsics.  A path that goes on after reaching         *)
(* start_cyclecount has cycle_count 0 and its PC at the address LR held;   *)
(* one that goes on after reaching end_cyclecount has count_cycles false   *)
(* and its PC at the address LR held.  Once count_cycles is false it stays *)
(* false on that path and no instruction executed changes cycle_count.     *)
C25_CycleCountIntrinsics ==
    [][SamePathStep =>
         /\ get_pc_hooks(cur.pc) = "start_cyclecount" =>
               /\ cur'.cycle_count = 0
               /\ IsConst(cur.lr) /\ cur'.pc = cur.lr.v
         /\ get_pc_hooks(cur.pc) = "end_cyclecount" =>
               /\ ~cur'.count_cycles
               /\ cur'.cycle_count = cur.cycle_count
               /\ IsConst(cur.lr) /\ cur'.pc = cur.lr.v
         /\ ~cur.count_cycles =>
               /\ ~cur'.count_cycles
               /\ get_pc_hooks(cur.pc) = "none" =>
                     cur'.cycle_count = cur.cycle_count
      ]_vars

(* A path reached end_cyclecount after its first instruction, returned to  *)
(* the address in LR and executed another instruction.                     *)
C25_Witness ==
    Running /\ ~cur.count_cycles /\ cur.instruction_counter = 2 /\ ev.op = "step"

(* C5: error containment. An error while one path runs ends only that      *)
(* path: whenever the driver has returned, every saved path has been run.  *)
C5_ErrorContainment ==
    driver \in {"done", "aborted"} => Len(paths) = 0

(***************************************************************************)
(* Properties of the memory.                                               *)
(***************************************************************************)
IsWriteStep == mop'.kind = "write" /\ nwrites' = nwrites + 1
NumBytes(width) == width \div BITS_IN_BYTE
ByteOf(v, i) == [j \in 1..BITS_IN_BYTE |-> v[BITS_IN_BYTE * i + j]]
LayoutOffset(endian, n, i) == IF endian = "Little" THEN i ELSE n - 1 - i
InsideImage(addr, width) ==
    address_in_range(addr) /\ address_in_range(addr + NumBytes(width) - 1)

(* C6: static memory is write-protected. A write to an address inside the  *)
(* static range, through any of the three entry points, fails with         *)
(* WritingToStaticMemoryProhibited and leaves the memory as it was.        *)
C6_StaticWriteProtected ==
    [][(IsWriteStep /\ address_in_range(mop'.addr)) =>
          /\ mop'.res = "WritingToStaticMemoryProhibited"
          /\ ram' = ram
      ]_vars

(* C7: static-read equivalence. A read of w bits at a constant address     *)
(* whose bytes lie inside the program image returns a constant of exactly  *)
(* w bits, equal to the ELF bytes at that address in the project's         *)
(* endianness, whatever was written before.                                *)
C7_StaticReadEquivalence ==
    (mop.kind = "read" /\ InsideImage(mop.addr, mop.width)) =>
        /\ mop.res = "Ok"
        /\ Len(mop.out) = mop.width
        /\ IsConstant(mop.out)
        /\ \A i \in 0..(NumBytes(mop.width) - 1) :
              ByteOf(mop.out, i) =
                  ElfByte(mop.addr + LayoutOffset(endianness, NumBytes(mop.width), i))

(* C8: endianness round trip. A read of w bits at a non-static address     *)
(* that follows a write of a w bit constant v to the same address returns  *)
(* v, in little-endian and in big-endian memories.                         *)
C8_EndiannessRoundTrip ==
    (/\ mop.kind = "read" /\ mop.res = "Ok"
     /\ ~address_in_range(mop.addr)
     /\ mop.last_write[1] = mop.addr
     /\ Len(mop.last_write[2]) = mop.width) =>
        mop.out = mop.last_write[2]

(* A 64 bit value was written to a big-endian memory at the last address,  *)
(* so that its bytes wrap around the address space, and read back.         *)
C8_Witness ==
    /\ mop.kind = "read" /\ mop.res = "Ok" /\ mop.width = 64
    /\ endianness = "Big"
    /\ mop.addr = AddrSpace - 1
    /\ mop.last_write = <<mop.addr, Word(64)>>
    /\ mop.out = Word(64)

(* C9: byte layout. A write of an n byte value at addr that reaches the    *)
(* array stores byte i of the value (byte 0 least significant) at addr + i *)
(* in little-endian mode and at addr + (n-1-i) in big-endian mode and      *)
(* leaves every other cell alone; a read of n bytes from the array takes   *)
(* byte i of its result from the same cell.                                *)
C9_ByteLayout ==
    [][/\ (IsWriteStep /\ mop'.res = "Ok") =>
            LET n == NumBytes(mop'.width)
                touched == {AddAddr(mop'.addr, i) : i \in 0..(n - 1)}
            IN  /\ \A i \in 0..(n - 1) :
                      ram'[AddAddr(mop'.addr, LayoutOffset(endianness, n, i))]
                          = ByteOf(mop'.value, i)
                /\ \A a \in Addrs \ touched : ram'[a] = ram[a]
       /\ (mop'.kind = "read" /\ mop'.res = "Ok" /\ ~address_in_range(mop'.addr)) =>
            LET n == NumBytes(mop'.width)
            IN  /\ Len(mop'.out) = mop'.width
                /\ ram' = ram
                /\ \A i \in 0..(n - 1) :
                      ByteOf(mop'.out, i) =
                          ram[AddAddr(mop'.addr, LayoutOffset(endianness, n, i))]
      ]_vars

(* A four byte value sits in a big-endian memory with its most significant *)
(* byte first, and a one byte read of the first cell returns that byte.    *)
C9_Witness ==
    /\ endianness = "Big"
    /\ mop.kind = "read" /\ mop.res = "Ok" /\ mop.width = 8
    /\ mop.last_write = <<mop.addr, Word(32)>>
    /\ mop.out = ByteOf(Word(32), 3)
    /\ ram[AddAddr(mop.addr, 3)] = ByteOf(Word(32), 0)

(***************************************************************************)
(* Properties of the register file.                                        *)
(***************************************************************************)
(* C10: register-read memoization. A read of a register whose storage was  *)
(* not written on this path returns the expression the previous read of    *)
(* that register returned; two reads of an unwritten register never give   *)
(* two different fresh symbols.                                            *)
C10_RegisterReadMemoized ==
    (/\ rop.kind = "read"
     /\ rop.prev # NoExpr
     /\ StorageOf(rop.reg) \notin rop.written) =>
        rop.out = rop.prev

(* An unwritten register was read twice, with a write to another register  *)
(* in between, and both reads gave the symbol made by the first.           *)
C10_Witness ==
    /\ rop.kind = "read" /\ rop.reg = "R0" /\ rop.n = 3
    /\ rop.written = {"LR"}
    /\ rop.prev = Unconstrained("R0", 0)
    /\ rop.out = rop.prev

(* C26: the PC+ pseudo-register.  A read of PC+ returns the PC plus 1,     *)
(* wrapped to the register width, and leaves the PC and every register as  *)
(* they were; a write of a concrete value to PC+ succeeds and makes that    *)
(* value the PC.                                                           *)
C26_PcPlus ==
    [][(rop'.n = rop.n + 1 /\ rop'.reg = "PC+") =>
          /\ rop'.kind = "read" =>
                /\ rop'.res = "Ok"
                /\ rop'.out = Const((regs.pc + 1) % (2 ^ RegBits))
                /\ regs' = regs
          /\ (rop'.kind = "write" /\ IsConst(rop'.out)) =>
                /\ rop'.res = "Ok"
                /\ regs'.pc = rop'.out.v
                /\ get_register(regs', "PC").out = rop'.out]_vars

(* The highest address was written through PC+ and PC+ was read back: the   *)
(* sum wrapped to 0 and the PC still holds the address written.            *)
C26_Witness ==
    /\ rop.kind = "read" /\ rop.reg = "PC+" /\ rop.n = 2
    /\ "PC" \in rop.written
    /\ regs.pc = 2 ^ RegBits - 1
    /\ rop.out = Const(0)

(***************************************************************************)
(* Properties of the hook layer.                                           *)
(***************************************************************************)
Covers(hook, addr) == hook[2] <= addr /\ addr <= hook[3]
RangeTable(kind) ==
    IF kind = "read" THEN range_memory_read_hook ELSE range_memory_write_hook
SingleTable(kind) ==
    IF kind = "read" THEN single_memory_read_hook ELSE single_memory_write_hook
Registered(kind, addr) ==
    {i \in 1..Len(RangeTable(kind)) :
        RangeTable(kind)[i][1] <= addr /\ addr <= RangeTable(kind)[i][2]}
ViaHookLayer == mop.entry \in {"read_memory", "write_memory"}

Matching(kind, addr) ==
    SelectSeq(RangeTable(kind), LAMBDA el : el[1] <= addr /\ addr <= el[2])

(* C37: through the hook layer a single-address hook fires only for a      *)
(* constant address equal to its key and a range hook only for a constant  *)
(* address between its bounds, both included; the range hooks that match   *)
(* all fire, in registration order; an access at a symbolic address fires  *)
(* no hook and reaches the memory.                                         *)
C37_MemoryHookFiring ==
    /\ ViaHookLayer =>
          LET ranges == Matching(mop.kind, mop.addr)
              n == Len(ranges)
          IN  /\ Len(mop.hooks) =
                    n + (IF mop.addr \in SingleTable(mop.kind) THEN 1 ELSE 0)
              /\ \A i \in 1..n : mop.hooks[i] = <<"range", ranges[i][1], ranges[i][2]>>
              /\ mop.addr \in SingleTable(mop.kind) =>
                    mop.hooks[n + 1] = <<"single", mop.addr, mop.addr>>
              /\ (mop.res = "Hooks") <=> (Len(mop.hooks) > 0)
    /\ mop.entry \in {"read_memory_symbolic", "write_memory_symbolic"} =>
          /\ mop.hooks = << >>
          /\ mop.res = "Ok"
          /\ mop.kind = "read" =>
                mop.out = internal_read(ram, endianness, mop.addr, mop.width)
          /\ mop.kind = "write" => mop.last_write = <<mop.addr, mop.value>>

(* A read at the upper bound of two ranges, where no single hook is: both  *)
(* range hooks fire, first registered first.                               *)
C37_Witness ==
    /\ mop.entry = "read_memory"
    /\ mop.addr = PeripheralAddr + 1
    /\ mop.hooks = << <<"range", PeripheralAddr, PeripheralAddr + 1>>,
                      <<"range", PeripheralAddr + 1, PeripheralAddr + 1>> >>

(***************************************************************************)
(* Properties of a whole run (SpecRun).                                    *)
(***************************************************************************)
Started == driver \in {"idle", "exec", "done"}
FetchPc == ClearBit0(regs.pc)
PathEnded == driver' = "idle" /\ cur' = NoState
WritesPc ==
    /\ RunFetching
    /\ ev'.op \in {"hook", "decode"}
    /\ rop'.kind = "write"
    /\ StorageOf(rop'.reg) = "PC"
SymbolicPcWrite == WritesPc /\ ~IsConst(rop'.out)

(* C12: End-PC sentinel.  In every run the driver has started a PC hook    *)
(* maps the end-PC sentinel to EndSuccess; a path that returns from the    *)
(* entry function through LR, before LR was written, ends with Success;    *)
(* and a fetch at the sentinel ends the path with Success without an       *)
(* instruction being decoded or executed there.                            *)
C12_EndPcSentinel ==
    [][/\ Started' => PcHooks[EndPcAddr] = Hook("EndSuccess", "none")
       /\ (RunFetching /\ FetchPc = EndPcAddr) =>
             /\ ev'.op = "hook"
             /\ PathEnded
             /\ results' = Append(results, "Success")
       /\ (WritesPc /\ ev'.op = "decode" /\ cur.instruction_counter = 0
             /\ ReturnToCaller(regs).expr = rop'.out) =>
             /\ rop'.res = "Ok"
             /\ regs'.pc = EndPcAddr]_vars

(* C13: Initial state.  The first path of a run starts with PC at the      *)
(* entry function's address, SP at _stack_start, LR at the end-PC          *)
(* sentinel, every flag unconstrained, no other register written, a cycle  *)
(* count of 0 and cycle counting enabled.                                  *)
C13_InitialState ==
    (driver = "idle" /\ ev.op = "start") =>
        /\ Len(paths) = 1
        /\ regs.pc = EntryPc
        /\ regs.register_file["SP"] = Const(StackStart)
        /\ regs.register_file["LR"] = Const(EndPcAddr)
        /\ regs.register_file["R0"] = Absent
        /\ \A f \in FlagNames : regs.flags[f] \in {Absent, Unconstrained(f, 0)}
        /\ TopPath(paths).state.cycle_count = 0
        /\ TopPath(paths).state.count_cycles
        /\ TopPath(paths).constraints = {}

(* C14: Initialisation errors abort the whole run.  When the entry symbol  *)
(* is missing the run returns EntryFunctionNotFound, when _stack_start is  *)
(* missing it returns UnableToParseElf; in both cases no state exists, no  *)
(* path was saved or run and no result was reported.                       *)
EntryMissing == ~run.entry \/ (impl = "GAState2" /\ ~run.subprogram)
C14_InitErrorsAbort ==
    /\ (driver # "new" /\ (EntryMissing \/ ~run.stack)) =>
          /\ driver = "aborted"
          /\ run.err = IF EntryMissing
                       THEN "EntryFunctionNotFound"
                       ELSE "UnableToParseElf"
          /\ paths = << >>
          /\ cur = NoState
          /\ results = << >>
          /\ regs = BoolectorMemory_new
          /\ ev.op = "start"
    /\ (driver # "new" /\ ~(EntryMissing \/ ~run.stack)) => run.err = "none"

C14_Witness ==
    /\ impl = "GAState2"
    /\ driver = "aborted"
    /\ run.entry /\ run.subprogram /\ ~run.stack
    /\ run.err = "UnableToParseElf"

(* C15: Symbolic PC enumeration.  When a step assigns the PC an expression *)
(* without a constant value for which the solver returns exactly k <=      *)
(* SolutionCap values, the path goes on at one of them and k - 1 paths are *)
(* saved to the store.                                                     *)
C15_SymbolicPcEnumeration ==
    [][(SymbolicPcWrite /\ get_values(rop'.out, SolutionCap).kind = "Exactly") =>
          /\ driver' = "exec"
          /\ cur' # NoState
          /\ regs'.pc \in get_values(rop'.out, SolutionCap).values
          /\ Len(paths') =
                Len(paths) + Cardinality(get_values(rop'.out, SolutionCap).values) - 1]_vars

(* C16: Symbolic PC cap.  When a step of GAState assigns the PC an         *)
(* expression with more than SolutionCap solutions, the path ends as a     *)
(* path failure: a Failure result is reported and the run goes on.         *)
C16_SymbolicPcCap ==
    [][(impl = "GAState" /\ SymbolicPcWrite
          /\ get_values(rop'.out, SolutionCap).kind = "AtLeast") =>
          /\ PathEnded
          /\ results' = Append(results, "Failure")]_vars

C18_PcHookOutcome ==
    [][(RunFetching /\ FetchPc \in RunAddrs /\ PcHooks[FetchPc] # NoHook) =>
          LET hook == PcHooks[FetchPc]
          IN  /\ ev'.op = "hook"
              /\ cur' # NoState =>
                    cur'.instruction_counter = cur.instruction_counter
              /\ hook.variant = "EndSuccess" =>
                    (PathEnded /\ results' = Append(results, "Success"))
              /\ hook.variant = "EndFailure" =>
                    (PathEnded /\ results' = Append(results, FailureWith(hook.arg)))
              /\ hook.variant = "Suppress" =>
                    (PathEnded /\ results' = results)
              /\ (driver' = "exec") =>
                    hook.variant \in {"Continue", "Intrinsic"}]_vars

C18_Witness ==
    /\ rop.kind = "write"
    /\ rop.reg = "PC"
    /\ rop.out = Const(PanicPc + 1)
    /\ regs.pc = PanicPc + 1
    /\ ev.op = "hook"
    /\ driver = "idle"
    /\ results = <<"Failure(panic)">>

C22_SuppressSkipped ==
    [][(Fetching /\ get_pc_hooks(cur.pc) = "Suppress") =>
          /\ results' = results
          /\ driver' = "idle"
          /\ cur' = NoState
          /\ paths' = paths]_vars

(* A path forked, saved its sibling and then ended without any record:     *)
(* only Suppress does that; the sibling is waiting to be taken.            *)
C22_Witness ==
    /\ driver = "idle" /\ cur = NoState /\ results = << >>
    /\ Len(paths) = 1 /\ TopPath(paths).constraints # {}

(* C23: AssumptionUnsat is dropped.  When the path being run ends with     *)
(* AssumptionUnsat (a guard neither side of which is satisfiable), nothing *)
(* is appended to the recorded results and the arbiter is back at the head *)
(* of its loop with the path store untouched.                              *)
C23_AssumptionUnsatDropped ==
    [][(Fetching /\ ev'.op = "fork_none") =>
          /\ results' = results
          /\ driver' = "idle"
          /\ cur' = NoState
          /\ paths' = paths]_vars

FailurePatterns ==
    {Regex(<<"panic">>, ".", TRUE), Exact(<<"panic", "_", "cold_explicit">>),
     Exact(<<"unwrap_failed">>), Exact(<<"panic", "_", "bounds_check">>),
     Exact(<<"unreachable_unchecked">>)}

(* C24: default failure hooks.  Once the default hooks are installed from  *)
(* a subprogram map, a path that reaches the start of a subprogram whose   *)
(* name matches ^panic.*$, ^panic_cold_explicit$, ^unwrap_failed$,         *)
(* ^panic_bounds_check$ or ^unreachable_unchecked$ ends with a failure,    *)
(* and one that reaches a subprogram matching ^suppress_path$ ends with    *)
(* Suppress.                                                               *)
C24_DefaultFailureHooks ==
    [][(probe' # probe /\ installed.defaults = "Ok" /\ installed.adds = 0) =>
          /\ (\E p \in FailurePatterns : is_match(p, probe'.name)) =>
                probe'.result = "Failure"
          /\ is_match(Exact(<<"suppress_path">>), probe'.name) =>
                probe'.result = "Suppress"]_vars

DefaultPatterns ==
    {Exact(<<"panic", "_">>), Exact(<<"panic", "_", "cold_explicit">>),
     Exact(<<"unwrap_failed">>), Exact(<<"panic", "_", "bounds_check">>),
     Exact(<<"unreachable_unchecked">>), Exact(<<"suppress_path">>),
     Exact(<<"start_cyclecount">>), Exact(<<"end_cyclecount">>)}

(* C39: building the default hooks from a subprogram map succeeds also     *)
(* when the program lacks some of the eight functions the defaults name:   *)
(* the functions it has get their hooks, a missing one gets none.          *)
C39_DefaultHooksUsable ==
    [][(installed.defaults = "none" /\ installed'.defaults # "none") =>
          /\ installed'.defaults = "Ok"
          /\ \A n \in symbols :
                (\E p \in DefaultPatterns : is_match(p, n)) =>
                    installed'.last.container[StartOf(n)] # NoHook]_vars

(* C28: add_pc_hook_regex(map, pattern, hook).  If some subprogram name    *)
(* matches the pattern the call returns Ok and the container differs from  *)
(* the one before only at the start address of one matching subprogram,    *)
(* where the hook now is; if no name matches it returns                    *)
(* EntryFunctionNotFound(pattern) and the container is the one before.     *)
C28_AddPcHookRegex ==
    [][(installed'.adds = installed.adds + 1) =>
          LET o == installed'.last
              before == installed.last.container
              matching == {n \in symbols : is_match(o.pattern, n)}
          IN  /\ o.pattern \in HookPatterns
              /\ matching # {} =>
                    /\ o.res = "Ok"
                    /\ \E n \in matching, h \in HookChoices :
                          /\ o.container[StartOf(n)] = h
                          /\ \A a \in InstallAddrs \ {StartOf(n)} :
                                o.container[a] = before[a]
              /\ matching = {} =>
                    /\ o.res = "EntryFunctionNotFound"
                    /\ o.container = before]_vars

(* A first call installed a hook of the user, a second call with a pattern *)
(* nothing matches returned the error and left that hook in place.         *)
C28_Witness ==
    /\ installed.adds = 2
    /\ installed.last.res = "EntryFunctionNotFound"
    /\ \E a \in InstallAddrs : installed.last.container[a] \in HookChoices

(***************************************************************************)
(* Properties of the symbolic intrinsic (SpecSym).                         *)
(***************************************************************************)
BitsIn(memory) == {memory[a][j] : a \in Addrs, j \in 1..BITS_IN_BYTE}
FreeBits(v) == {v[i] : i \in {j \in 1..Len(v) : v[j] >= 2}}
MarksSymbolic == mop' # mop /\ mop'.kind = "write" /\ mop'.entry = "symbolic_size"

(* C27: the symbolic intrinsic.  When the PC reaches symbolic_size<T> with *)
(* R0 = p and R1 = n, the 8 * n bits of memory at p become a symbol none   *)
(* of whose bits the memory held before, every other cell keeps its value, *)
(* the PC becomes the address in LR and the path gains no constraint; a    *)
(* later read of the 8 * n bits at p returns that symbol; it has a free    *)
(* bit, hence (with k free bits, 2^k) at least two values.                 *)
C27_SymbolicIntrinsic ==
    [][/\ MarksSymbolic =>
            LET p == regs.register_file["R0"].v
                n == regs.register_file["R1"].v
                now == internal_read(ram', endianness, p, n * BITS_IN_BYTE)
            IN  /\ mop'.addr = p /\ mop'.width = n * BITS_IN_BYTE
                /\ Len(now) = n * BITS_IN_BYTE
                /\ Cardinality(FreeBits(now)) = n * BITS_IN_BYTE
                /\ FreeBits(now) \cap BitsIn(ram) = {}
                /\ \A a \in Addrs \ {AddAddr(p, i) : i \in 0..(n - 1)} :
                      ram'[a] = ram[a]
                /\ regs'.pc = regs.register_file["LR"].v
                /\ cur'.live /\ cur'.constraints = cur.constraints
       /\ (/\ mop'.kind = "read" /\ mop'.res = "Ok"
           /\ ~address_in_range(mop'.addr)
           /\ mop'.last_write[1] = mop'.addr
           /\ Len(mop'.last_write[2]) = mop'.width
           /\ ~IsConstant(mop'.last_write[2])) =>
              /\ mop'.out = mop'.last_write[2]
              /\ Cardinality(FreeBits(mop'.out)) >= 1
      ]_vars

(* The intrinsic ran twice on one path and the four bytes at the pointer   *)
(* were then read back: they are the second symbol, not a constant.        *)
C27_Witness ==
    /\ cur # NoState /\ cur.any_counter = 2
    /\ mop.kind = "read" /\ mop.res = "Ok" /\ mop.width = 32
    /\ mop.last_write = <<mop.addr, unconstrained(1, 32)>>
    /\ mop.out = unconstrained(1, 32)

(***************************************************************************)
(* Properties of the instructions (SpecInstr).                             *)
(***************************************************************************)
TopBit(x) == x \div 2 ^ (RegBits - 1)

(* C29: ADC Rd, Rn, Rm sets Rd to (Rn + Rm + C) modulo the word size; with *)
(* S = false every flag keeps its value; with S = true N, Z, C and V are   *)
(* the sign, the zero test, the carry out and the signed overflow of the   *)
(* sum.                                                                    *)
C29_Adc ==
    [][
        /\ ev'.op = "adc" => regs'.flags = regs.flags
        /\ (ev'.op \in {"adc", "adcs"} /\ IsConst(regs.flags["C"])) =>
              LET n == regs.register_file["R1"].v
                  m == regs.register_file["R2"].v
                  sum == n + m + regs.flags["C"].v
                  r == sum % (2 ^ RegBits)
              IN  /\ regs'.register_file[rop'.reg] = Const(r)
                  /\ ev'.op = "adcs" =>
                        /\ regs'.flags["N"] = Const(TopBit(r))
                        /\ regs'.flags["Z"] = Const(IF r = 0 THEN 1 ELSE 0)
                        /\ regs'.flags["C"] =
                              Const(IF sum >= 2 ^ RegBits THEN 1 ELSE 0)
                        /\ regs'.flags["V"] =
                              Const(IF TopBit(n) = TopBit(m) /\ TopBit(r) # TopBit(n)
                                    THEN 1 ELSE 0)
    ]_vars

C29_Witness ==
    /\ ev.op = "adcs"
    /\ cur.instruction_counter = 1
    /\ regs.register_file["R1"] = Const(0)
    /\ regs.register_file["R2"] = Const(2 ^ (RegBits - 1))
    /\ regs.flags["C"] = Const(1)
    /\ regs.flags["Z"] = Const(1)
    /\ regs.flags["V"] = Const(1)

FlagRead(condition) ==
    CASE condition \in {"CS", "CC"} -> "C"
      [] condition \in {"VS", "VC"} -> "V"
      [] OTHER -> "Z"
Holds(flags, condition) ==
    CASE condition \in {"CS", "VS", "EQ"} -> flags[FlagRead(condition)] = Const(1)
      [] condition \in {"CC", "VC"} -> flags[FlagRead(condition)] = Const(0)
      [] OTHER -> TRUE

(* C30: a conditional branch over concrete flags whose condition is false  *)
(* leaves the PC at the next instruction, size_bits / 8 further; one whose *)
(* condition is true leaves it at the target; neither saves a path.        *)
C30_ConditionalBranch ==
    [][
        (/\ ev'.op \in {"branch", "branch_symbolic"}
         /\ IsConst(regs.flags[FlagRead(rop'.kind)])) =>
            /\ paths' = paths
            /\ regs'.pc = IF Holds(regs.flags, rop'.kind)
                          THEN rop'.out.v
                          ELSE regs.pc + instruction_size \div BITS_IN_BYTE
            /\ regs'.register_file["PC"] = Const(regs'.pc)
    ]_vars

C30_Witness ==
    /\ ev.op = "branch"
    /\ rop.kind = "CC"
    /\ cur.instruction_counter = 1
    /\ regs.flags["C"] = Const(1)
    /\ regs.pc = instruction_size \div BITS_IN_BYTE
    /\ paths = << >>

(***************************************************************************)
(* Properties of the conditions (SpecCond).                                *)
(***************************************************************************)
ConditionPairs ==
    {<<"EQ", "NE">>, <<"CS", "CC">>, <<"MI", "PL">>, <<"VS", "VC">>,
     <<"HI", "LS">>, <<"GE", "LT">>, <<"GT", "LE">>}
ConcreteFlags(s) == \A f \in FlagNames : IsConst(s.flags[f])
IsTrue(e) == e = Const(1)

(* C38: over concrete flags exactly one condition of each pair EQ/NE,      *)
(* CS/CC, MI/PL, VS/VC, HI/LS, GE/LT and GT/LE is true under get_expr, and *)
(* LE is true exactly when Z is set or N differs from V.                   *)
C38_ConditionsComplementary ==
    ConcreteFlags(regs) =>
        /\ \A p \in ConditionPairs :
              IsTrue(get_expr(regs, p[1])) # IsTrue(get_expr(regs, p[2]))
        /\ IsTrue(get_expr(regs, "LE")) <=>
              (regs.flags["Z"] = Const(1) \/ regs.flags["N"] # regs.flags["V"])

(***************************************************************************)
(* Properties of the decoder's errors (SpecDecode).                        *)
(***************************************************************************)
SameName(err) ==
    CASE err = "Malfromed32BitInstruction" -> "MalfromedInstruction"
      [] err \in {"Invalid32BitInstruction", "InvalidOpCode"} -> "InvalidInstruction"
      [] OTHER -> err

(* C40: a decoder error is reported as the parse error of the same kind:   *)
(* InsufficientInput, Unpredictable, InvalidRegister and InvalidCondition  *)
(* under their own names, a malformed instruction as MalfromedInstruction, *)
(* an invalid instruction or opcode as InvalidInstruction.                 *)
C40_DecoderErrorsPreserved ==
    rop.kind \in DecoderErrors => rop.res = SameName(rop.kind)

(***************************************************************************)
(* Properties of PUSH and POP (SpecStack).                                 *)
(***************************************************************************)
Pushed(r) == rop.last[r]
WordAt(memory, address) ==
    AsExpr(internal_read(memory, endianness, address, StackWord))
RoundTrip(pc) ==
    /\ rop'.res = "Ok"
    /\ \A r \in {"R4", "R5", "R7"} : regs'.register_file[r] = Pushed(r)
    /\ regs'.register_file["SP"] = Pushed("SP")
    /\ regs'.pc = pc
    /\ regs'.register_file["PC"] = Const(pc)
PushStores ==
    /\ rop'.res = "Ok"
    /\ regs'.register_file["SP"] =
          Const(regs.register_file["SP"].v - Len(PushList) * WordBytes)
    /\ \A i \in 1..Len(PushList) :
          WordAt(ram', regs'.register_file["SP"].v + (i - 1) * WordBytes) =
              regs.register_file[PushList[i]]

(* C31 as stated: PUSH {R4,R5,R7,LR} moves SP down by a word per register  *)
(* and stores the registers at ascending addresses, and the POP            *)
(* {R4,R5,R7,PC} after it restores R4, R5 and R7, returns SP to where it   *)
(* was and leaves in PC the value LR had.                                  *)
C31_PushPopRoundTrip ==
    [][/\ ev'.op = "push" => PushStores
       /\ ev'.op = "pop" => RoundTrip(Pushed("LR").v)]_vars

(* C31, amended: as above, but PC is left with the value LR had with its   *)
(* bit 0 cleared.                                                          *)
C31_PushPopRoundTripMasked ==
    [][/\ ev'.op = "push" => PushStores
       /\ ev'.op = "pop" => RoundTrip(ClearBit0(Pushed("LR").v))]_vars

(* The scenario of the tests: R4, R5, R7 and LR pushed with LR odd and     *)
(* equal to R7, R4 overwritten, then popped.                               *)
C31_Witness ==
    /\ ev.op = "pop"
    /\ Pushed("R4") = Const(17)
    /\ Pushed("R5") = Const(18)
    /\ Pushed("R7") = Const(19)
    /\ Pushed("LR") = Const(19)
    /\ regs.register_file["R4"] = Const(17)
    /\ regs.register_file["R7"] = Const(19)
    /\ regs.pc = 18
    /\ regs.register_file["SP"] = Const(StackTop)
    /\ cur.instruction_counter = 2

(***************************************************************************)
(* Properties of the IT blocks (SpecIt).                                   *)
(***************************************************************************)
Passes(flags, condition) ==
    CASE condition = "EQ" -> flags["Z"] = Const(1)
      [] condition = "NE" -> flags["Z"] = Const(0)
      [] OTHER -> TRUE
Queue(state) == state.instruction_conditions

(* C32: the conditions of an IT instruction are enqueued behind the ones   *)
(* already waiting, in their order; an instruction in the block takes      *)
(* exactly the oldest one and runs its effect if and only if that          *)
(* condition holds over the flags at that moment; the state is in a        *)
(* conditional block exactly while the queue is not empty.                 *)
C32_ItQueueFifo ==
    [][
        /\ ev'.op = "it" => Queue(cur') = Queue(cur) \o ev'.g
        /\ (ev'.op = "slot" /\ Queue(cur) # << >>) =>
              /\ Queue(cur') = Tail(Queue(cur))
              /\ rop'.kind = Head(Queue(cur))
        /\ ev'.op = "slot" =>
              /\ Len(Queue(cur')) >= Len(Queue(cur)) - 1
              /\ regs'.flags =
                    IF Queue(cur) = << >> \/ Passes(regs.flags, Head(Queue(cur)))
                    THEN [regs.flags EXCEPT ![rop'.reg] = rop'.out]
                    ELSE regs.flags
        /\ cur'.live => (get_in_conditional_block(cur') <=> Len(Queue(cur')) > 0)
    ]_vars

(* The second slot of a block of two has run: its condition NE was taken   *)
(* after EQ and failed on the Z flag the first slot had set.               *)
C32_Witness ==
    /\ ev.op = "slot"
    /\ rop.kind = "NE"
    /\ cur.instruction_counter = 3
    /\ Queue(cur) = << >>
    /\ regs.flags["Z"] = Const(1)
    /\ rop.reg = "C"
    /\ regs.flags["C"] # rop.out

(* C33: when an IT instruction has enqueued its conditions, no condition   *)
(* of an earlier block is left in the queue ahead of them.                 *)
C33_UnusedConditionsDiscarded ==
    [][ev'.op = "it" => Queue(cur') = ev'.g]_vars

(***************************************************************************)
(* Properties of the operation interpreter (SpecOps).                      *)
(***************************************************************************)
Ran == ev'.op \in {"instruction", "continue"}
Completed == Ran /\ rop'.res = "Ok"
SavedNow == {paths'[j] : j \in (Len(paths) + 1)..Len(paths')}
FirstIndex == IF ev'.op = "continue" THEN cur.continue_in_instruction[1].index ELSE 1
CursorOf(p) == p.state.state.continue_in_instruction[1]
Touched(instruction, from, index, ops, dst) ==
    \E i \in from..(index - 1) :
        /\ instruction.operations[i].op \in ops
        /\ dst \in {"", instruction.operations[i].dst}
LocalsAt(instruction, index) ==
    [n \in LocalNames |->
        IF Touched(instruction, 1, index, {"local"}, n)
        THEN Const(instruction.operations[
                 CHOOSE i \in 1..(index - 1) :
                     /\ instruction.operations[i].op = "local"
                     /\ instruction.operations[i].dst = n].imm)
        ELSE NoExpr]
Resolved(state) ==
    LET c == state.current_instruction[1].max_cycle
    IN  IF c.kind = "Value" THEN c.v ELSE IF state.has_jumped THEN 2 ELSE 1

(* C34: the saved paths are not changed by what the running path does: an  *)
(* instruction leaves every path saved before it as it was, the clone a    *)
(* fork saves holds the registers, flags, memory, constraints, counters    *)
(* and IT queue of the fork point and nothing the operations after it      *)
(* write, and a popped path starts from exactly what was saved with it.    *)
C34_PathIsolation ==
    [][
        /\ Ran => SubSeq(paths', 1, Len(paths)) = paths
        /\ Ran => \A p \in SavedNow :
              LET c == CursorOf(p)
                  Kept(ops, dst) ==
                      ~Touched(c.instruction, FirstIndex, c.index, ops, dst)
              IN  /\ \A r \in {"R1", "LR", "SP"} :
                        Kept({"move", "move_local"}, r) =>
                            p.state.memory.register_file[r] = regs.register_file[r]
                  /\ \A f \in FlagNames :
                        Kept({"set_flag"}, f) =>
                            p.state.memory.flags[f] = regs.flags[f]
                  /\ Kept({"store"}, "") => p.state.ram = ram
                  /\ Kept({"it"}, "") =>
                        p.state.state.instruction_conditions =
                            cur.instruction_conditions
                  /\ Kept({"jump"}, "") =>
                        p.state.state.constraints = cur.constraints
                  /\ p.state.state.cycle_count = cur.cycle_count
                  /\ p.state.state.instruction_counter = cur.instruction_counter
        /\ ev'.op = "run" =>
              /\ regs' = TopPath(paths).state.memory
              /\ ram' = TopPath(paths).state.ram
              /\ cur' = [TopPath(paths).state.state EXCEPT
                            !.constraints = @ \cup TopPath(paths).constraints]
              /\ paths' = SubSeq(paths, 1, Len(paths) - 1)
    ]_vars

(* The running path has finished the instruction it forked in: its R1, Z   *)
(* flag, memory, IT queue, counters and constraints all differ from the    *)
(* ones of the sibling that is saved.                                      *)
C34_Witness ==
    /\ Len(paths) = 1
    /\ cur.live
    /\ cur.instruction_counter = 2
    /\ LET p == TopPath(paths).state
       IN  /\ p.memory.register_file["R1"] = Const(3)
           /\ regs.register_file["R1"] = Const(5)
           /\ p.memory.flags["Z"] = Const(0)
           /\ regs.flags["Z"] = Const(1)
           /\ p.ram # ArrayMemory_new
           /\ p.ram # ram
           /\ p.state.instruction_conditions = << >>
           /\ cur.instruction_conditions = <<"EQ">>
           /\ p.state.instruction_counter = 1
           /\ p.state.cycle_count < cur.cycle_count
           /\ p.state.constraints # cur.constraints

(* C35: an instruction that completes adds one to the instruction counter  *)
(* and, if and only if cycles are counted, the cycles of the instruction   *)
(* to the cycle count: the value it names, or its function on the state    *)
(* after the instruction ran.  A sibling saved by a fork in it has not     *)
(* counted the instruction; it counts it when it completes it itself.      *)
C35_InstructionBookkeeping ==
    [][Completed =>
          /\ cur'.instruction_counter = cur.instruction_counter + 1
          /\ cur'.last_instruction = cur'.current_instruction
          /\ cur'.cycle_count =
                cur.cycle_count + IF cur.count_cycles THEN Resolved(cur') ELSE 0
          /\ \A p \in SavedNow :
                /\ p.state.state.instruction_counter = cur.instruction_counter
                /\ p.state.state.cycle_count = cur.cycle_count
    ]_vars

(* A sibling was resumed inside the branch and completed it without the    *)
(* jump, after the running path had completed it with the jump: each       *)
(* counted the instruction once, with the cycles of its own outcome.       *)
C35_Witness ==
    /\ ev.op = "continue"
    /\ cur.live
    /\ cur.count_cycles
    /\ cur.last_instruction = <<Branching>>
    /\ ~cur.has_jumped
    /\ cur.instruction_counter = 1
    /\ cur.cycle_count = 1
    /\ paths = << >>

(* C36: a fork at an operation saves the sibling with the cursor of that   *)
(* operation in the instruction being executed and with the locals written *)
(* before it; the running path executes every operation of the instruction *)
(* once, in order, and a path resumed from a cursor executes the           *)
(* operations from the cursor to the last once, in order, and none before. *)
C36_MidInstructionResume ==
    [][
        /\ Completed =>
              LET ops == cur'.current_instruction[1].operations
              IN  /\ rop'.out = [k \in 1..(Len(ops) - FirstIndex + 1) |->
                                    FirstIndex + k - 1]
                  /\ cur'.continue_in_instruction = << >>
        /\ (Completed /\ ev'.op = "continue") =>
              cur'.current_instruction =
                  <<cur.continue_in_instruction[1].instruction>>
        /\ Ran => \A p \in SavedNow :
              /\ Len(p.state.state.continue_in_instruction) = 1
              /\ LET c == CursorOf(p)
                 IN  /\ <<c.instruction>> = p.state.state.current_instruction
                     /\ c.index \in FirstIndex..Len(c.instruction.operations)
                     /\ c.instruction.operations[c.index].op = "jump"
                     /\ c.local = LocalsAt(c.instruction, c.index)
        /\ ev'.op = "run" =>
              cur'.continue_in_instruction =
                  TopPath(paths).state.state.continue_in_instruction
    ]_vars

(* The sibling of a fork at the second operation of the branch has run the *)
(* operations 2 to 6 under the negated guard: the jump is not taken and R1 *)
(* holds the local that was written before the fork.                       *)
C36_Witness ==
    /\ ev.op = "continue"
    /\ rop.out = <<2, 3, 4, 5, 6>>
    /\ cur.live
    /\ <<1, FALSE>> \in cur.constraints
    /\ regs.register_file["R1"] = Const(5)
    /\ regs.pc # JumpTarget
    /\ cur.instruction_conditions = <<"EQ">>

(***************************************************************************)
(* Properties of the path store (SpecDfs, FairSpecDfs).                    *)
(***************************************************************************)
IsPop == driver = "idle" /\ driver' = "exec"

(* C19: Depth-first order.  The path the driver pops is the most recently  *)
(* saved path still in the store: a pop takes the last element and leaves  *)
(* the older ones in their order, and every other step leaves the store    *)
(* alone or saves one path behind all the others.                          *)
C19_DepthFirst ==
    [][/\ IsPop =>
             /\ Len(paths) > 0
             /\ paths' = SubSeq(paths, 1, Len(paths) - 1)
             /\ cur' = AssertAll(paths[Len(paths)].state,
                                 paths[Len(paths)].constraints)
       /\ ~IsPop =>
             \/ paths' = paths
             \/ /\ Len(paths') = Len(paths) + 1
                /\ SubSeq(paths', 1, Len(paths)) = paths]_vars

C19_Witness ==
    /\ driver = "exec"
    /\ Len(results) = 1
    /\ Len(paths) = 1
    /\ paths[1].constraints = {<<1, FALSE>>}
    /\ cur.constraints = {<<1, TRUE>>, <<2, FALSE>>}

(* C20: Exhaustion.  Every path ever saved to the store is popped and run: *)
(* from some point on the store is empty for good.                         *)
C20_Exhaustion == <>[](paths = << >>)

====
